---- MODULE Spec2Model ----
(***************************************************************************)
(* simd_aligned: SIMD-lane-aligned storage with a packed and a flat view.  *)
(*                                                                         *)
(* The state is one container, a VecD (src/src/vec.rs) or a MatSimd        *)
(* (src/src/mat.rs), that owns a PackedMxN (src/src/packed.rs).  Indices   *)
(* are 0-based as in the source; TLA+ sequences are 1-based, so element i  *)
(* of a slice s is s[i + 1].  A packed vector T is a sequence of LANES     *)
(* scalar elements.                                                        *)
(***************************************************************************)
EXTENDS Integers, Sequences, FiniteSets, TLC

\* Bounds of the model.
MaxDim == 3          \* with_dimension(width, height): width, height in 0..MaxDim
MaxSize == 5         \* VecD::with(t, size): size in 0..MaxSize
MaxScalars == 8      \* largest allocation explored by Spec, in scalar lanes
MaxLayoutDim == 10   \* sizes and dimensions in 0..MaxLayoutDim in SpecLayout

LaneCounts == {2}              \* T::LANES of the vector types explored by Spec
LayoutLaneCounts == {2, 4, 8}  \* T::LANES of the vector types explored by SpecLayout
Elements == {0, 1}             \* T::Element values
DefaultElement == 0            \* every lane of T::default()

VARIABLES
    kind,             \* "VecD" or "MatSimd"
    strategy,         \* AccessStrategy of a MatSimd: "Rows" or "Columns" ("Rows" for a VecD)
    LANES,            \* T::LANES
    ctor,             \* the arguments the container was constructed with
    rows,             \* PackedMxN.rows
    row_length,       \* PackedMxN.row_length
    vectors_per_row,  \* PackedMxN.vectors_per_row
    data,             \* PackedMxN.data: Vec<T>
    ret,              \* the last call: its name, what it returned and where it stored
    iter,             \* the Matrix2DIter / SimdMatrixIter borrowed from the matrix, if any
    twin,             \* a second buffer constructed with the same arguments, if any
    borrows           \* the live views of the buffer, and whether it is still owned

vars == <<kind, strategy, LANES, ctor, rows, row_length, vectors_per_row, data, ret, iter,
          twin, borrows>>
layout == <<kind, strategy, LANES, ctor, rows, row_length, vectors_per_row>>
aux == <<twin, borrows>>

-----------------------------------------------------------------------------
(* Pure helpers *)

\* A mutation of splat: only the first lane takes the value
splat_first_lane(t, lanes) == [l \in 1..lanes |-> IF l = 1 THEN t ELSE DefaultElement]

\* Simd::splat
splat(t, lanes) == [l \in 1..lanes |-> t]

\* vec![default; n]
vec_repeat(default, n) == [i \in 1..n |-> default]

\* A mutation of vectors_per_row_for: the division truncates
vectors_per_row_truncated(len, lanes) == len \div lanes

\* A mutation of vectors_per_row_for: one more vector whatever the remainder
vectors_per_row_plus_one(len, lanes) == (len \div lanes) + 1

\* packed.rs: the match in PackedMxN::with
vectors_per_row_for(len, lanes) ==
    IF len % lanes = 0 THEN len \div lanes ELSE (len \div lanes) + 1

\* PackedMxN::with
PackedMxN_with(default, r, len, lanes) ==
    LET vpr == vectors_per_row_for(len, lanes)
    IN  [rows |-> r, row_length |-> len, vectors_per_row |-> vpr,
         data |-> vec_repeat(default, vpr * r)]

\* A mutation of row_start_offset: the stride is the flat length of a row
row_start_offset_by_row_length(row) == row * row_length

\* PackedMxN::row_start_offset
row_start_offset(row) == row * vectors_per_row

\* A mutation of range_for_row: the end is one vector too far
range_for_row_too_long(row) ==
    <<row * vectors_per_row, row * vectors_per_row + vectors_per_row + 1>>

\* A mutation of range_for_row: a row beyond the last one is clamped to the last one
range_for_row_clamped(row) ==
    LET r == IF row >= rows /\ rows > 0 THEN rows - 1 ELSE row
    IN  <<r * vectors_per_row, r * vectors_per_row + vectors_per_row>>

\* PackedMxN::range_for_row: the half-open range <<start, end>>
range_for_row(row) ==
    LET start == row_start_offset(row)
        end == start + vectors_per_row
    IN  <<start, end>>

\* &s[range]: the bounds check of slice indexing by a range
SliceOk(s, range) == range[1] <= range[2] /\ range[2] <= Len(s)

\* &s[range]
Slice(s, range) == SubSeq(s, range[1] + 1, range[2])

\* A mutation of flat_to_packed: Columns does not swap
flat_to_packed_unswapped(s, x, y) == <<x, y>>

\* AccessStrategy::flat_to_packed
flat_to_packed(s, x, y) == IF s = "Rows" THEN <<x, y>> ELSE <<y, x>>

-----------------------------------------------------------------------------
(* The flat reinterpretation, src/src/conversion.rs *)

\* The number of scalars the memory of slice s holds
Capacity(s) == Len(s) * LANES

\* A mutation of lane_at: the lanes of a vector are read in reverse order
lane_at_reversed(s, k) == s[(k \div LANES) + 1][LANES - (k % LANES)]

\* Scalar k of the memory of slice s: lane k % LANES of vector k / LANES
\* (the pointer cast `data.as_ptr() as *const T::Element`, then ptr.add(k))
lane_at(s, k) == s[(k \div LANES) + 1][(k % LANES) + 1]

\* A mutation of simd_container_flat_slice: the view spans the padded capacity
simd_container_flat_slice_padded(s, length) ==
    [k \in 1..Capacity(s) |-> lane_at(s, k - 1)]

\* simd_container_flat_slice: from_raw_parts(ptr, length).  Defined when the
\* view stays inside the slice; FlatOk is that precondition.
simd_container_flat_slice(s, length) == [k \in 1..length |-> lane_at(s, k - 1)]

\* simd_container_flat_slice_mut: from_raw_parts_mut(mut_ptr, length)
simd_container_flat_slice_mut(s, length) == [k \in 1..length |-> lane_at(s, k - 1)]

\* The safety comment of simd_container_flat_slice: `attributes <= N * LANES`
FlatOk(s, length) == length <= Capacity(s)

\* A mutation of flat_store: the lane offset inside the vector is dropped
flat_store_first_lane(s, k, v) == [s EXCEPT ![(k \div LANES) + 1][1] = v]

\* A mutation of flat_store: the value is broadcast to every lane of the vector
flat_store_splat(s, k, v) == [s EXCEPT ![(k \div LANES) + 1] = [l \in 1..LANES |-> v]]

\* `flat[k] = v` through a mutable flat view of slice s: the slice afterwards
flat_store(s, k, v) == [s EXCEPT ![(k \div LANES) + 1][(k % LANES) + 1] = v]

\* A mutation of SliceMutStore: the vector is rebuilt up to the end of the range
SliceMutStore_truncating(d, range, s) == SubSeq(d, 1, range[1]) \o s

\* A mutation of SliceMutStore: the slice is written back at the start of the storage
SliceMutStore_from_start(d, range, s) ==
    [i \in 1..Len(d) |-> IF i <= Len(s) THEN s[i] ELSE d[i]]

\* A write through `&mut d[range]` that leaves the borrowed slice as s: d afterwards
SliceMutStore(d, range, s) ==
    [i \in 1..Len(d) |-> IF range[1] < i /\ i <= range[2] THEN s[i - range[1]] ELSE d[i]]

\* A mutation of vec_store: the vector lands in the first element
vec_store_first(s, j, x) == [s EXCEPT ![1] = x]

\* `s[j] = x` through a mutable slice of vectors
vec_store(s, j, x) == [s EXCEPT ![j + 1] = x]

\* A mutation of packed_as_flat: the length is not multiplied by the lane count
packed_as_flat_one_lane(s) == simd_container_flat_slice(s, Len(s))

\* packed_as_flat / packed_as_flat_mut
packed_as_flat(s) == simd_container_flat_slice(s, Len(s) * LANES)
packed_as_flat_mut(s) == simd_container_flat_slice_mut(s, Len(s) * LANES)

-----------------------------------------------------------------------------
(* Views of the container in the current state *)

\* &self.simd_rows.data[..]
WholeSlice == data
WholeRange == <<0, Len(data)>>

\* VecD::flat / VecD::flat_mut
VecD_flat == simd_container_flat_slice(WholeSlice, row_length)
VecD_flat_mut == simd_container_flat_slice_mut(WholeSlice, row_length)

\* &self.data[range] for range_for_row(row); RowSliceOk is its bounds check
RowSliceOk(row) == SliceOk(data, range_for_row(row))
RowSlice(row) == Slice(data, range_for_row(row))

\* PackedMxN::row_as_flat / PackedMxN::row_as_flat_mut
PackedMxN_row_as_flat(row) == simd_container_flat_slice(RowSlice(row), row_length)
PackedMxN_row_as_flat_mut(row) == simd_container_flat_slice_mut(RowSlice(row), row_length)

\* MatSimd<T, Rows>::row / row_mut, MatSimd<T, Columns>::column / column_mut
MatSimd_row(i) == RowSlice(i)
MatSimd_row_mut(i) == RowSlice(i)
MatSimd_column(i) == RowSlice(i)
MatSimd_column_mut(i) == RowSlice(i)

\* MatSimd<T, Rows>::row_as_flat / row_as_flat_mut
MatSimd_row_as_flat(i) == simd_container_flat_slice(MatSimd_row(i), row_length)
MatSimd_row_as_flat_mut(i) == simd_container_flat_slice_mut(MatSimd_row_mut(i), row_length)

\* MatSimd<T, Columns>::column_as_flat / column_as_flat_mut
MatSimd_column_as_flat(i) == simd_container_flat_slice(MatSimd_column(i), row_length)
MatSimd_column_as_flat_mut(i) ==
    simd_container_flat_slice_mut(MatSimd_column_mut(i), row_length)

\* Index<(usize, usize)> for MatFlat: the element `flat[(x, y)]` refers to
MatFlat_index(x, y) ==
    LET p == flat_to_packed(strategy, x, y)
    IN  PackedMxN_row_as_flat(p[1])[p[2] + 1]

\* Index<(usize, usize)> for MatFlatMut
MatFlatMut_index(x, y) ==
    LET p == flat_to_packed(strategy, x, y)
    IN  PackedMxN_row_as_flat(p[1])[p[2] + 1]

\* The vector of the storage and the lane in it that scalar k of packed row
\* `row` occupies: range_for_row(row).start + k / LANES, lane k % LANES
PackedMxN_location(vpr, lanes, row, k) == <<row * vpr + (k \div lanes), k % lanes>>

\* The storage location `flat[(x, y)]` resolves to in a matrix of strategy s
MatFlat_location(s, vpr, lanes, x, y) ==
    LET p == flat_to_packed(s, x, y)
    IN  PackedMxN_location(vpr, lanes, p[1], p[2])

\* A mutation of MatSimd_dimension: the stored pair is returned untranslated
MatSimd_dimension_untranslated == <<rows, row_length>>

\* MatSimd::dimension
MatSimd_dimension == flat_to_packed(strategy, rows, row_length)

-----------------------------------------------------------------------------
(* Results of calls *)

NoVec == <<>>

NoIndex == <<>>

\* The ways a call fails: the panic of a slice index out of bounds and the
\* panic!() of OptimizationStrategy::assert_row / assert_column
NoError == "none"
IndexOutOfBounds == "IndexOutOfBounds"
WrongAxisAccess == "WrongAxisAccess"

\* The mark of a call that made a flat view longer than the memory of its slice
InvalidReinterpretation == "InvalidReinterpretation"

\* A call that returned; a read stores nothing
Returned(op, len, val, vec) ==
    [op |-> op, ok |-> TRUE, err |-> NoError, at |-> NoIndex, len |-> len,
     val |-> val, vec |-> vec]

\* A write that returned: `at` is the index it stored at, val or vec what it stored
Stored(op, at, len, val, vec) ==
    [op |-> op, ok |-> TRUE, err |-> NoError, at |-> at, len |-> len,
     val |-> val, vec |-> vec]

\* A panic (index out of bounds); len is the length of the view the failing
\* index was applied to, -1 when the panic came before there was a view.
Panicked(op, len) ==
    [op |-> op, ok |-> FALSE, err |-> IndexOutOfBounds, at |-> NoIndex, len |-> len,
     val |-> 0, vec |-> NoVec]

\* A read that returned, with the index it read at
Indexed(op, at, len, val, vec) ==
    [op |-> op, ok |-> TRUE, err |-> NoError, at |-> at, len |-> len,
     val |-> val, vec |-> vec]

\* A panic of kind err of a call that was handed the index `at`
Failed(op, at, err) ==
    [op |-> op, ok |-> FALSE, err |-> err, at |-> at, len |-> -1,
     val |-> 0, vec |-> NoVec]

\* No second buffer
NoTwin == <<>>

\* A buffer that is owned and has no live view
NoBorrows == [shared |-> 0, unique |-> 0, alive |-> TRUE]

\* No iterator borrows the matrix
NoIter == [live |-> FALSE, index |-> 0, yielded |-> 0, done |-> FALSE]

\* A flat view that reaches outside its slice is undefined behaviour: the
\* call may return or abort, return any value and leave anything in memory.
Undefined(op) ==
    /\ ret' \in {[op |-> op, ok |-> o, err |-> InvalidReinterpretation,
                  at |-> NoIndex, len |-> -1, val |-> v, vec |-> NoVec] :
                     o \in BOOLEAN, v \in Elements}
    /\ data' \in [1..Len(data) -> [1..LANES -> Elements]]
    /\ UNCHANGED <<layout, iter, aux>>

\* The values of T
Vectors == [1..LANES -> Elements]

\* Indices handed to the calls: every valid one, the padding lanes and some beyond
RowIndices == 0..rows
VecIndices == 0..(Len(data) + 1)
FlatIndices == 0..(vectors_per_row * LANES)
LaneIndices == 0..vectors_per_row
XYIndices == {flat_to_packed(strategy, row, k) : row \in RowIndices, k \in FlatIndices}

\* `view[k]` of a flat view over slice s (a read): elem is the element there
FlatRead(op, s, view, k, elem) ==
    IF ~FlatOk(s, row_length) THEN Undefined(op)
    ELSE /\ ret' = IF k < Len(view)
                   THEN Returned(op, Len(view), elem, NoVec)
                   ELSE Panicked(op, Len(view))
         /\ UNCHANGED <<layout, data, iter, aux>>

\* `view[k] = v` of a mutable flat view over the slice s = &mut data[range]
FlatWrite(op, at, range, s, view, k, v) ==
    IF ~FlatOk(s, row_length) THEN Undefined(op)
    ELSE IF k < Len(view)
         THEN /\ data' = SliceMutStore(data, range, flat_store(s, k, v))
              /\ ret' = Stored(op, at, Len(view), v, NoVec)
              /\ UNCHANGED <<layout, iter, aux>>
         ELSE /\ ret' = Panicked(op, Len(view))
              /\ UNCHANGED <<layout, data, iter, aux>>

\* `s[j]` of a slice of vectors (a read)
PackedRead(op, s, j) ==
    /\ ret' = IF j < Len(s)
              THEN Returned(op, Len(s), 0, s[j + 1])
              ELSE Panicked(op, Len(s))
    /\ UNCHANGED <<layout, data, iter, aux>>

\* `s[j] = x` of the mutable slice s = &mut data[range]
PackedWrite(op, at, range, s, j, x) ==
    IF j < Len(s)
    THEN /\ data' = SliceMutStore(data, range, vec_store(s, j, x))
         /\ ret' = Stored(op, at, Len(s), 0, x)
         /\ UNCHANGED <<layout, iter, aux>>
    ELSE /\ ret' = Panicked(op, Len(s))
         /\ UNCHANGED <<layout, data, iter, aux>>

\* The slice bounds check failed before any view existed
SlicePanic(op) ==
    /\ ret' = Panicked(op, -1)
    /\ UNCHANGED <<layout, data, iter, aux>>

-----------------------------------------------------------------------------
(* VecD, src/src/vec.rs *)

\* v.flat()[k]
VecFlatGet(k) ==
    /\ kind = "VecD"
    /\ FlatRead("VecD::flat", WholeSlice, VecD_flat, k, VecD_flat[k + 1])

\* v.flat_mut()[k] read back
VecFlatMutGet(k) ==
    /\ kind = "VecD"
    /\ FlatRead("VecD::flat_mut", WholeSlice, VecD_flat_mut, k, VecD_flat_mut[k + 1])

\* v.flat_mut()[k] = e
VecFlatMutSet(k, e) ==
    /\ kind = "VecD"
    /\ FlatWrite("VecD::flat_mut=", <<k>>, WholeRange, WholeSlice, VecD_flat_mut, k, e)

\* v[i]
VecIndex(i) ==
    /\ kind = "VecD"
    /\ ret' = IF i < Len(data)
              THEN Indexed("VecD::index", <<i>>, Len(data), 0, data[i + 1])
              ELSE Failed("VecD::index", <<i>>, IndexOutOfBounds)
    /\ UNCHANGED <<layout, data, iter, aux>>

\* v[i] = x
VecIndexMut(i, x) ==
    /\ kind = "VecD"
    /\ IF i < Len(data)
       THEN /\ data' = vec_store(data, i, x)
            /\ ret' = Stored("VecD::index_mut=", <<i>>, Len(data), 0, x)
            /\ UNCHANGED <<layout, iter, aux>>
       ELSE /\ ret' = Failed("VecD::index_mut=", <<i>>, IndexOutOfBounds)
            /\ UNCHANGED <<layout, data, iter, aux>>

\* v.deref()[i]
VecDeref(i) ==
    /\ kind = "VecD"
    /\ PackedRead("VecD::deref", WholeSlice, i)

\* v.deref_mut()[i] = x
VecDerefMut(i, x) ==
    /\ kind = "VecD"
    /\ PackedWrite("VecD::deref_mut=", <<i>>, WholeRange, WholeSlice, i, x)

\* packed_as_flat(&v[..])[k]
PackedAsFlatGet(k) ==
    /\ kind = "VecD"
    /\ LET view == packed_as_flat(WholeSlice)
       IN  ret' = IF k < Len(view)
                  THEN Indexed("packed_as_flat", <<k>>, Len(view), view[k + 1], NoVec)
                  ELSE Panicked("packed_as_flat", Len(view))
    /\ UNCHANGED <<layout, data, iter, aux>>

\* packed_as_flat_mut(&mut v[..])[k] = e
PackedAsFlatMutSet(k, e) ==
    /\ kind = "VecD"
    /\ LET view == packed_as_flat_mut(WholeSlice)
       IN  IF k < Len(view)
           THEN /\ data' = SliceMutStore(data, WholeRange, flat_store(WholeSlice, k, e))
                /\ ret' = Stored("packed_as_flat_mut=", <<k>>, Len(view), e, NoVec)
                /\ UNCHANGED <<layout, iter, aux>>
           ELSE /\ ret' = Panicked("packed_as_flat_mut=", Len(view))
                /\ UNCHANGED <<layout, data, iter, aux>>

-----------------------------------------------------------------------------
(* PackedMxN, src/src/packed.rs *)

\* simd_rows.row_start_offset(row)
PackedRowStartOffset(row) ==
    /\ ret' = Returned("PackedMxN::row_start_offset", -1,
                       row_start_offset(row), NoVec)
    /\ UNCHANGED <<layout, data, iter, aux>>

\* simd_rows.range_for_row(row)
PackedRangeForRow(row) ==
    /\ ret' = Returned("PackedMxN::range_for_row", -1, 0, range_for_row(row))
    /\ UNCHANGED <<layout, data, iter, aux>>

\* simd_rows.row_as_flat(row)[k]
PackedRowAsFlat(row, k) ==
    IF RowSliceOk(row)
    THEN FlatRead("PackedMxN::row_as_flat", RowSlice(row),
                  PackedMxN_row_as_flat(row), k, PackedMxN_row_as_flat(row)[k + 1])
    ELSE SlicePanic("PackedMxN::row_as_flat")

-----------------------------------------------------------------------------
(* MatSimd, src/src/mat.rs *)

\* m.dimension()
MatDimension ==
    /\ kind = "MatSimd"
    /\ ret' = Returned("MatSimd::dimension", -1, 0, MatSimd_dimension)
    /\ UNCHANGED <<layout, data, iter, aux>>

\* m.flat()[(x, y)]
MatFlatIndex(x, y) ==
    /\ kind = "MatSimd"
    /\ LET p == flat_to_packed(strategy, x, y)
       IN  IF RowSliceOk(p[1])
           THEN FlatRead("MatFlat::index", RowSlice(p[1]),
                         PackedMxN_row_as_flat(p[1]), p[2], MatFlat_index(x, y))
           ELSE SlicePanic("MatFlat::index")

\* m.flat_mut()[(x, y)] read back
MatFlatMutIndex(x, y) ==
    /\ kind = "MatSimd"
    /\ LET p == flat_to_packed(strategy, x, y)
       IN  IF RowSliceOk(p[1])
           THEN FlatRead("MatFlatMut::index", RowSlice(p[1]),
                         PackedMxN_row_as_flat(p[1]), p[2], MatFlatMut_index(x, y))
           ELSE SlicePanic("MatFlatMut::index")

\* m.flat_mut()[(x, y)] = e
MatFlatMutIndexMut(x, y, e) ==
    /\ kind = "MatSimd"
    /\ LET p == flat_to_packed(strategy, x, y)
       IN  IF RowSliceOk(p[1])
           THEN FlatWrite("MatFlatMut::index_mut=", <<x, y>>, range_for_row(p[1]),
                          RowSlice(p[1]), PackedMxN_row_as_flat_mut(p[1]), p[2], e)
           ELSE SlicePanic("MatFlatMut::index_mut=")

\* m.row(i)[j]
MatRow(i, j) ==
    /\ kind = "MatSimd" /\ strategy = "Rows"
    /\ IF RowSliceOk(i)
       THEN PackedRead("MatSimd::row", MatSimd_row(i), j)
       ELSE SlicePanic("MatSimd::row")

\* m.row_mut(i)[j] = x
MatRowMut(i, j, x) ==
    /\ kind = "MatSimd" /\ strategy = "Rows"
    /\ IF RowSliceOk(i)
       THEN PackedWrite("MatSimd::row_mut=", <<i, j>>, range_for_row(i),
                        MatSimd_row_mut(i), j, x)
       ELSE SlicePanic("MatSimd::row_mut=")

\* m.row_as_flat(i)[k]
MatRowAsFlat(i, k) ==
    /\ kind = "MatSimd" /\ strategy = "Rows"
    /\ IF RowSliceOk(i)
       THEN FlatRead("MatSimd::row_as_flat", MatSimd_row(i), MatSimd_row_as_flat(i), k,
                     MatSimd_row_as_flat(i)[k + 1])
       ELSE SlicePanic("MatSimd::row_as_flat")

\* m.row_as_flat_mut(i)[k] = e
MatRowAsFlatMut(i, k, e) ==
    /\ kind = "MatSimd" /\ strategy = "Rows"
    /\ IF RowSliceOk(i)
       THEN FlatWrite("MatSimd::row_as_flat_mut=", <<i, k>>, range_for_row(i),
                      MatSimd_row_mut(i), MatSimd_row_as_flat_mut(i), k, e)
       ELSE SlicePanic("MatSimd::row_as_flat_mut=")

\* m.column(i)[j]
MatColumn(i, j) ==
    /\ kind = "MatSimd" /\ strategy = "Columns"
    /\ IF RowSliceOk(i)
       THEN PackedRead("MatSimd::column", MatSimd_column(i), j)
       ELSE SlicePanic("MatSimd::column")

\* m.column_mut(i)[j] = x
MatColumnMut(i, j, x) ==
    /\ kind = "MatSimd" /\ strategy = "Columns"
    /\ IF RowSliceOk(i)
       THEN PackedWrite("MatSimd::column_mut=", <<i, j>>, range_for_row(i),
                        MatSimd_column_mut(i), j, x)
       ELSE SlicePanic("MatSimd::column_mut=")

\* m.column_as_flat(i)[k]
MatColumnAsFlat(i, k) ==
    /\ kind = "MatSimd" /\ strategy = "Columns"
    /\ IF RowSliceOk(i)
       THEN FlatRead("MatSimd::column_as_flat", MatSimd_column(i),
                     MatSimd_column_as_flat(i), k, MatSimd_column_as_flat(i)[k + 1])
       ELSE SlicePanic("MatSimd::column_as_flat")

\* m.column_as_flat_mut(i)[k] = e
MatColumnAsFlatMut(i, k, e) ==
    /\ kind = "MatSimd" /\ strategy = "Columns"
    /\ IF RowSliceOk(i)
       THEN FlatWrite("MatSimd::column_as_flat_mut=", <<i, k>>, range_for_row(i),
                      MatSimd_column_mut(i), MatSimd_column_as_flat_mut(i), k, e)
       ELSE SlicePanic("MatSimd::column_as_flat_mut=")

-----------------------------------------------------------------------------
(* Construction *)

\* VecD::with(t, size) for T with `lanes` lanes
VecD_with(t, size, lanes) ==
    LET p == PackedMxN_with(splat(t, lanes), 1, size, lanes)
    IN  /\ kind = "VecD"
        /\ strategy = "Rows"
        /\ LANES = lanes
        /\ ctor = <<t, size>>
        /\ rows = p.rows
        /\ row_length = p.row_length
        /\ vectors_per_row = p.vectors_per_row
        /\ data = p.data
        /\ ret = Returned("VecD::with", -1, 0, NoVec)
        /\ iter = NoIter
        /\ twin = NoTwin
        /\ borrows = NoBorrows

\* A mutation of MatSimd_simd_rows: the dimensions are not translated
MatSimd_simd_rows_untranslated(s, width, height, lanes) ==
    PackedMxN_with(splat(DefaultElement, lanes), width, height, lanes)

\* The simd_rows field MatSimd::<T, s>::with_dimension(width, height) builds
MatSimd_simd_rows(s, width, height, lanes) ==
    LET xy == flat_to_packed(s, width, height)
    IN  PackedMxN_with(splat(DefaultElement, lanes), xy[1], xy[2], lanes)

\* MatSimd::<T, s>::with_dimension(width, height) for T with `lanes` lanes
MatSimd_with_dimension(s, width, height, lanes) ==
    LET p == MatSimd_simd_rows(s, width, height, lanes)
    IN  /\ kind = "MatSimd"
        /\ strategy = s
        /\ LANES = lanes
        /\ ctor = <<width, height>>
        /\ rows = p.rows
        /\ row_length = p.row_length
        /\ vectors_per_row = p.vectors_per_row
        /\ data = p.data
        /\ ret = Returned("MatSimd::with_dimension", -1, 0, NoVec)
        /\ iter = NoIter
        /\ twin = NoTwin
        /\ borrows = NoBorrows

Strategies == {"Rows", "Columns"}

\* The scalar lanes PackedMxN::with(_, r, len) allocates for T with `lanes` lanes
Allocation(r, len, lanes) == r * vectors_per_row_for(len, lanes) * lanes

Init ==
    \E lanes \in LaneCounts :
        \/ \E t \in Elements, size \in 0..MaxSize :
            /\ Allocation(1, size, lanes) <= MaxScalars
            /\ VecD_with(t, size, lanes)
        \/ \E s \in Strategies, width \in 0..MaxDim, height \in 0..MaxDim :
            /\ Allocation(flat_to_packed(s, width, height)[1],
                          flat_to_packed(s, width, height)[2], lanes) <= MaxScalars
            /\ MatSimd_with_dimension(s, width, height, lanes)

InitLayout ==
    \E lanes \in LayoutLaneCounts :
        \/ \E t \in Elements, size \in 0..MaxLayoutDim : VecD_with(t, size, lanes)
        \/ \E s \in Strategies, width \in 0..MaxLayoutDim, height \in 0..MaxLayoutDim :
            MatSimd_with_dimension(s, width, height, lanes)

\* The calls that only compute on the layout
NextLayout ==
    \/ \E row \in RowIndices : PackedRowStartOffset(row)
    \/ \E row \in RowIndices : PackedRangeForRow(row)
    \/ \E row \in RowIndices, k \in FlatIndices : PackedRowAsFlat(row, k)
    \/ MatDimension
    \/ \E i \in RowIndices, j \in LaneIndices : MatRow(i, j)
    \/ \E i \in RowIndices, j \in LaneIndices : MatColumn(i, j)
    \/ \E i \in VecIndices : VecDeref(i)

Next ==
    \/ \E row \in RowIndices : PackedRangeForRow(row)
    \/ MatDimension
    \/ \E i \in RowIndices, j \in LaneIndices : MatRow(i, j)
    \/ \E i \in RowIndices, j \in LaneIndices : MatColumn(i, j)
    \/ \E i \in VecIndices : VecDeref(i)
    \/ \E k \in FlatIndices : VecFlatGet(k)
    \/ \E k \in FlatIndices : VecFlatMutGet(k)
    \/ \E k \in FlatIndices, e \in Elements : VecFlatMutSet(k, e)
    \/ \E i \in VecIndices : VecIndex(i)
    \/ \E i \in VecIndices, x \in Vectors : VecIndexMut(i, x)
    \/ \E i \in VecIndices, x \in Vectors : VecDerefMut(i, x)
    \/ \E xy \in XYIndices : MatFlatIndex(xy[1], xy[2])
    \/ \E xy \in XYIndices : MatFlatMutIndex(xy[1], xy[2])
    \/ \E xy \in XYIndices, e \in Elements : MatFlatMutIndexMut(xy[1], xy[2], e)
    \/ \E i \in RowIndices, j \in LaneIndices, x \in Vectors : MatRowMut(i, j, x)
    \/ \E i \in RowIndices, k \in FlatIndices : MatRowAsFlat(i, k)
    \/ \E i \in RowIndices, k \in FlatIndices, e \in Elements : MatRowAsFlatMut(i, k, e)
    \/ \E i \in RowIndices, j \in LaneIndices, x \in Vectors : MatColumnMut(i, j, x)
    \/ \E i \in RowIndices, k \in FlatIndices : MatColumnAsFlat(i, k)
    \/ \E i \in RowIndices, k \in FlatIndices, e \in Elements : MatColumnAsFlatMut(i, k, e)
    \/ \E k \in FlatIndices : PackedAsFlatGet(k)
    \/ \E k \in FlatIndices, e \in Elements : PackedAsFlatMutSet(k, e)

Spec == Init /\ [][Next]_vars

SpecLayout == InitLayout /\ [][NextLayout]_vars

-----------------------------------------------------------------------------
(* Whole accessor calls and iterators: MatSimd (src/src/mat.rs), PackedMxN  *)
(* (src/src/packed.rs) and SimdMatrix (src/src/matrix.rs), whose accessors  *)
(* assert the strategy at run time.                                         *)

MaxAxisDim == 5      \* with_dimension(width, height): width, height in 0..MaxAxisDim

AxisLaneCounts == {2, 4}       \* T::LANES of the vector types explored by SpecAxis

OptimizationStrategies == {"RowOptimized", "ColumnOptimized"}

\* OptimizationStrategy::translate_indices_to_simdrows
translate_indices_to_simdrows(s, x, y) ==
    IF s = "RowOptimized" THEN <<x, y>> ELSE <<y, x>>

\* A mutation of assert_row: the assertion never fires
assert_row_silent(s) == TRUE

\* OptimizationStrategy::assert_row: TRUE when it returns, FALSE when it panics
assert_row(s) == s = "RowOptimized"

\* A mutation of assert_column: the assertion never fires
assert_column_silent(s) == TRUE

\* OptimizationStrategy::assert_column: TRUE when it returns, FALSE when it panics
assert_column(s) == s = "ColumnOptimized"

\* The simd_rows field SimdMatrix::<T, s>::with_dimension(width, height) builds
SimdMatrix_simd_rows(s, width, height, lanes) ==
    LET xy == translate_indices_to_simdrows(s, width, height)
    IN  PackedMxN_with(splat(DefaultElement, lanes), xy[1], xy[2], lanes)

\* SimdMatrix::<T, s>::with_dimension(width, height) for T with `lanes` lanes
SimdMatrix_with_dimension(s, width, height, lanes) ==
    LET p == SimdMatrix_simd_rows(s, width, height, lanes)
    IN  /\ kind = "SimdMatrix"
        /\ strategy = s
        /\ LANES = lanes
        /\ ctor = <<width, height>>
        /\ rows = p.rows
        /\ row_length = p.row_length
        /\ vectors_per_row = p.vectors_per_row
        /\ data = p.data
        /\ ret = Returned("SimdMatrix::with_dimension", -1, 0, NoVec)
        /\ iter = NoIter
        /\ twin = NoTwin
        /\ borrows = NoBorrows

\* SimdMatrix::dimension
SimdMatrix_dimension == translate_indices_to_simdrows(strategy, rows, row_length)

\* A call that returned a slice of packed row i: len is the length of the
\* slice (in vectors, or in scalars for a flat slice), vec the range of the
\* storage it borrows
Sliced(op, i, len, range) ==
    [op |-> op, ok |-> TRUE, err |-> NoError, at |-> <<i>>, len |-> len,
     val |-> 0, vec |-> range]

\* An iterator that returned None
NoItem(op) == Returned(op, -1, 0, NoVec)

\* The row indices handed to the accessors: the valid ones and some beyond
AxisIndices == 0..(rows + 2)

\* `&self.simd_rows.data[range]` for range_for_row(i), and for a flat accessor
\* the reinterpretation of that slice with length row_length
AxisCall(op, i, flat) ==
    IF ~RowSliceOk(i)
    THEN /\ ret' = Failed(op, <<i>>, IndexOutOfBounds)
         /\ UNCHANGED <<layout, data, iter, aux>>
    ELSE IF flat /\ ~FlatOk(RowSlice(i), row_length)
         THEN Undefined(op)
         ELSE /\ ret' = Sliced(op, i,
                               IF flat
                               THEN Len(simd_container_flat_slice(RowSlice(i), row_length))
                               ELSE Len(RowSlice(i)),
                               range_for_row(i))
              /\ UNCHANGED <<layout, data, iter, aux>>

\* The panic!() of assert_row / assert_column
WrongAxis(op, at) ==
    /\ ret' = Failed(op, at, WrongAxisAccess)
    /\ UNCHANGED <<layout, data, iter, aux>>

\* row_iter() / column_iter(): a new iterator at index 0
NewIter(op) ==
    /\ iter' = [live |-> TRUE, index |-> 0, yielded |-> 0, done |-> FALSE]
    /\ ret' = Returned(op, -1, 0, NoVec)
    /\ UNCHANGED <<layout, data, aux>>

\* m.row(i) of a MatSimd<T, Rows>
MatRowSlice(i) ==
    /\ kind = "MatSimd" /\ strategy = "Rows"
    /\ AxisCall("MatSimd::row", i, FALSE)

\* m.row_mut(i); the exclusive borrow needs the iterator to be gone
MatRowMutSlice(i) ==
    /\ kind = "MatSimd" /\ strategy = "Rows" /\ ~iter.live
    /\ AxisCall("MatSimd::row_mut", i, FALSE)

\* m.row_as_flat(i)
MatRowAsFlatSlice(i) ==
    /\ kind = "MatSimd" /\ strategy = "Rows"
    /\ AxisCall("MatSimd::row_as_flat", i, TRUE)

\* m.row_as_flat_mut(i)
MatRowAsFlatMutSlice(i) ==
    /\ kind = "MatSimd" /\ strategy = "Rows" /\ ~iter.live
    /\ AxisCall("MatSimd::row_as_flat_mut", i, TRUE)

\* m.row_iter()
MatRowIter ==
    /\ kind = "MatSimd" /\ strategy = "Rows"
    /\ NewIter("MatSimd::row_iter")

\* m.column(i) of a MatSimd<T, Columns>
MatColumnSlice(i) ==
    /\ kind = "MatSimd" /\ strategy = "Columns"
    /\ AxisCall("MatSimd::column", i, FALSE)

\* m.column_mut(i)
MatColumnMutSlice(i) ==
    /\ kind = "MatSimd" /\ strategy = "Columns" /\ ~iter.live
    /\ AxisCall("MatSimd::column_mut", i, FALSE)

\* m.column_as_flat(i)
MatColumnAsFlatSlice(i) ==
    /\ kind = "MatSimd" /\ strategy = "Columns"
    /\ AxisCall("MatSimd::column_as_flat", i, TRUE)

\* m.column_as_flat_mut(i)
MatColumnAsFlatMutSlice(i) ==
    /\ kind = "MatSimd" /\ strategy = "Columns" /\ ~iter.live
    /\ AxisCall("MatSimd::column_as_flat_mut", i, TRUE)

\* m.column_iter()
MatColumnIter ==
    /\ kind = "MatSimd" /\ strategy = "Columns"
    /\ NewIter("MatSimd::column_iter")

\* simd_rows.row_as_flat(row) of the PackedMxN inside a MatSimd
PackedRowAsFlatSlice(row) ==
    /\ kind = "MatSimd"
    /\ AxisCall("PackedMxN::row_as_flat", row, TRUE)

\* simd_rows.row_as_flat_mut(row)
PackedRowAsFlatMutSlice(row) ==
    /\ kind = "MatSimd" /\ ~iter.live
    /\ AxisCall("PackedMxN::row_as_flat_mut", row, TRUE)

\* SimdMatrix::row
SimdMatrixRow(i) ==
    /\ kind = "SimdMatrix"
    /\ IF ~assert_row(strategy)
       THEN WrongAxis("SimdMatrix::row", <<i>>)
       ELSE AxisCall("SimdMatrix::row", i, FALSE)

\* SimdMatrix::row_iter
SimdMatrixRowIter ==
    /\ kind = "SimdMatrix"
    /\ IF ~assert_row(strategy)
       THEN WrongAxis("SimdMatrix::row_iter", NoIndex)
       ELSE NewIter("SimdMatrix::row_iter")

\* SimdMatrix::row_mut
SimdMatrixRowMut(i) ==
    /\ kind = "SimdMatrix" /\ ~iter.live
    /\ IF ~assert_row(strategy)
       THEN WrongAxis("SimdMatrix::row_mut", <<i>>)
       ELSE AxisCall("SimdMatrix::row_mut", i, FALSE)

\* SimdMatrix::row_as_flat: self.row(i), then the flat reinterpretation
SimdMatrixRowAsFlat(i) ==
    /\ kind = "SimdMatrix"
    /\ IF ~assert_row(strategy)
       THEN WrongAxis("SimdMatrix::row_as_flat", <<i>>)
       ELSE AxisCall("SimdMatrix::row_as_flat", i, TRUE)

\* SimdMatrix::row_as_flat_mut: self.row_mut(i), then the flat reinterpretation
SimdMatrixRowAsFlatMut(i) ==
    /\ kind = "SimdMatrix" /\ ~iter.live
    /\ IF ~assert_row(strategy)
       THEN WrongAxis("SimdMatrix::row_as_flat_mut", <<i>>)
       ELSE AxisCall("SimdMatrix::row_as_flat_mut", i, TRUE)

\* SimdMatrix::column
SimdMatrixColumn(i) ==
    /\ kind = "SimdMatrix"
    /\ IF ~assert_column(strategy)
       THEN WrongAxis("SimdMatrix::column", <<i>>)
       ELSE AxisCall("SimdMatrix::column", i, FALSE)

\* SimdMatrix::column_iter
SimdMatrixColumnIter ==
    /\ kind = "SimdMatrix"
    /\ IF ~assert_column(strategy)
       THEN WrongAxis("SimdMatrix::column_iter", NoIndex)
       ELSE NewIter("SimdMatrix::column_iter")

\* SimdMatrix::column_mut
SimdMatrixColumnMut(i) ==
    /\ kind = "SimdMatrix" /\ ~iter.live
    /\ IF ~assert_column(strategy)
       THEN WrongAxis("SimdMatrix::column_mut", <<i>>)
       ELSE AxisCall("SimdMatrix::column_mut", i, FALSE)

\* SimdMatrix::column_as_flat: self.column(i), then the flat reinterpretation
SimdMatrixColumnAsFlat(i) ==
    /\ kind = "SimdMatrix"
    /\ IF ~assert_column(strategy)
       THEN WrongAxis("SimdMatrix::column_as_flat", <<i>>)
       ELSE AxisCall("SimdMatrix::column_as_flat", i, TRUE)

\* SimdMatrix::column_as_flat_mut: self.column_mut(i), then the flat reinterpretation
SimdMatrixColumnAsFlatMut(i) ==
    /\ kind = "SimdMatrix" /\ ~iter.live
    /\ IF ~assert_column(strategy)
       THEN WrongAxis("SimdMatrix::column_as_flat_mut", <<i>>)
       ELSE AxisCall("SimdMatrix::column_as_flat_mut", i, TRUE)

\* A mutation of Matrix2DIter_next: the end test is off by one
Matrix2DIter_next_one_more(index) ==
    IF index > rows
    THEN [some |-> FALSE, row |-> index, index |-> index]
    ELSE [some |-> TRUE, row |-> index, index |-> index + 1]

\* A mutation of Matrix2DIter_next: the index is advanced before the row is taken
Matrix2DIter_next_skipping(index) ==
    IF index >= rows
    THEN [some |-> FALSE, row |-> index, index |-> index]
    ELSE [some |-> TRUE, row |-> index + 1, index |-> index + 1]

\* Matrix2DIter::next / SimdMatrixIter::next of an iterator at `index`: whether
\* there is an item, the row it is the slice of, and the index afterwards
Matrix2DIter_next(index) ==
    IF index >= rows
    THEN [some |-> FALSE, row |-> index, index |-> index]
    ELSE [some |-> TRUE, row |-> index, index |-> index + 1]

\* it.next()
IterNext ==
    /\ iter.live
    /\ LET op == IF kind = "SimdMatrix" THEN "SimdMatrixIter::next" ELSE "Matrix2DIter::next"
           n == Matrix2DIter_next(iter.index)
       IN  IF ~n.some
           THEN /\ ret' = NoItem(op)
                /\ iter' = [iter EXCEPT !.index = n.index, !.done = TRUE]
           ELSE IF RowSliceOk(n.row)
                THEN /\ ret' = Sliced(op, n.row, Len(RowSlice(n.row)), range_for_row(n.row))
                     /\ iter' = [iter EXCEPT !.index = n.index, !.yielded = @ + 1]
                ELSE /\ ret' = Failed(op, <<n.row>>, IndexOutOfBounds)
                     /\ iter' = [iter EXCEPT !.index = n.index]
    /\ UNCHANGED <<layout, data, aux>>

InitAxis ==
    \E lanes \in AxisLaneCounts, width \in 0..MaxAxisDim, height \in 0..MaxAxisDim :
        \/ \E s \in Strategies : MatSimd_with_dimension(s, width, height, lanes)
        \/ \E s \in OptimizationStrategies : SimdMatrix_with_dimension(s, width, height, lanes)

NextAxis ==
    \/ \E i \in AxisIndices : MatRowSlice(i)
    \/ \E i \in AxisIndices : MatRowMutSlice(i)
    \/ \E i \in AxisIndices : MatRowAsFlatSlice(i)
    \/ \E i \in AxisIndices : MatRowAsFlatMutSlice(i)
    \/ MatRowIter
    \/ \E i \in AxisIndices : MatColumnSlice(i)
    \/ \E i \in AxisIndices : MatColumnMutSlice(i)
    \/ \E i \in AxisIndices : MatColumnAsFlatSlice(i)
    \/ \E i \in AxisIndices : MatColumnAsFlatMutSlice(i)
    \/ MatColumnIter
    \/ \E i \in AxisIndices : PackedRowAsFlatSlice(i)
    \/ \E i \in AxisIndices : PackedRowAsFlatMutSlice(i)
    \/ \E i \in AxisIndices : SimdMatrixRow(i)
    \/ \E i \in AxisIndices : SimdMatrixRowMut(i)
    \/ \E i \in AxisIndices : SimdMatrixRowAsFlat(i)
    \/ \E i \in AxisIndices : SimdMatrixRowAsFlatMut(i)
    \/ SimdMatrixRowIter
    \/ \E i \in AxisIndices : SimdMatrixColumn(i)
    \/ \E i \in AxisIndices : SimdMatrixColumnMut(i)
    \/ \E i \in AxisIndices : SimdMatrixColumnAsFlat(i)
    \/ \E i \in AxisIndices : SimdMatrixColumnAsFlatMut(i)
    \/ SimdMatrixColumnIter
    \/ IterNext

SpecAxis == InitAxis /\ [][NextAxis]_vars

\* A program that creates one iterator and calls next() on it again and again
NextIterRun ==
    \/ ~iter.live /\ MatRowIter
    \/ ~iter.live /\ MatColumnIter
    \/ ~iter.live /\ SimdMatrixRowIter
    \/ ~iter.live /\ SimdMatrixColumnIter
    \/ IterNext

SpecIterRun == InitAxis /\ [][NextIterRun]_vars /\ WF_vars(IterNext)

-----------------------------------------------------------------------------
(* Properties *)

ValidRows == 0..(rows - 1)
ValidFlat == 0..(row_length - 1)

\* C1: vectors_per_row is the ceiling of row_length / LANES, the smallest v
\* with v * LANES >= row_length (LANES = 4: 4 gives 1, 5 gives 2; 10 elements
\* give 5 vectors at 2 lanes and 3 at 4 lanes).
C1_VectorsPerRowIsCeiling ==
    /\ vectors_per_row >= 0
    /\ vectors_per_row * LANES >= row_length
    /\ \A v \in 0..(vectors_per_row - 1) : v * LANES < row_length
    /\ (LANES = 4 /\ row_length = 4) => vectors_per_row = 1
    /\ (LANES = 4 /\ row_length = 5) => vectors_per_row = 2
    /\ (LANES = 2 /\ row_length = 10) => vectors_per_row = 5
    /\ (LANES = 4 /\ row_length = 10) => vectors_per_row = 3

C1_Witness ==
    /\ kind = "VecD" /\ ret.op = "VecD::with"
    /\ LANES = 4 /\ row_length = 10 /\ vectors_per_row = 3

FlatOps ==
    {"VecD::flat", "VecD::flat_mut", "VecD::flat_mut=", "PackedMxN::row_as_flat",
     "MatFlat::index", "MatFlatMut::index", "MatFlatMut::index_mut=",
     "MatSimd::row_as_flat", "MatSimd::row_as_flat_mut=",
     "MatSimd::column_as_flat", "MatSimd::column_as_flat_mut="}

\* C2: every flat view of one packed row has length row_length, the requested
\* flat length, never the padded capacity vectors_per_row * LANES: the views of
\* PackedMxN, of the matrix row / column accessors and VecD::flat / flat_mut
\* (whose length is the size the vector was built with).
C2_FlatViewLength ==
    /\ \A i \in ValidRows :
        /\ Len(PackedMxN_row_as_flat(i)) = row_length
        /\ Len(PackedMxN_row_as_flat_mut(i)) = row_length
        /\ (kind = "MatSimd" /\ strategy = "Rows") =>
            /\ Len(MatSimd_row_as_flat(i)) = row_length
            /\ Len(MatSimd_row_as_flat_mut(i)) = row_length
        /\ (kind = "MatSimd" /\ strategy = "Columns") =>
            /\ Len(MatSimd_column_as_flat(i)) = row_length
            /\ Len(MatSimd_column_as_flat_mut(i)) = row_length
    /\ kind = "VecD" => Len(VecD_flat) = ctor[2] /\ Len(VecD_flat_mut) = ctor[2]
    /\ (ret.op \in FlatOps /\ ret.len # -1) => ret.len = row_length

C2_Witness ==
    /\ ret.op = "MatSimd::column_as_flat" /\ ret.ok
    /\ ret.len = row_length
    /\ row_length < vectors_per_row * LANES
    /\ vectors_per_row = 2

FlatWriteOps ==
    {"VecD::flat_mut=", "MatFlatMut::index_mut=", "MatSimd::row_as_flat_mut=",
     "MatSimd::column_as_flat_mut="}

PackedWriteOps ==
    {"VecD::index_mut=", "VecD::deref_mut=", "MatSimd::row_mut=", "MatSimd::column_mut="}

\* C3: round trip: after a write of e at a valid flat index (k of
\* VecD::flat_mut, (x, y) of MatFlatMut), the same index read through the
\* immutable and the mutable flat view is e, whatever was written before.
C3_FlatRoundTrip ==
    /\ (ret.op = "VecD::flat_mut=" /\ ret.ok) =>
        /\ VecD_flat[ret.at[1] + 1] = ret.val
        /\ VecD_flat_mut[ret.at[1] + 1] = ret.val
    /\ (ret.op = "MatFlatMut::index_mut=" /\ ret.ok) =>
        /\ MatFlat_index(ret.at[1], ret.at[2]) = ret.val
        /\ MatFlatMut_index(ret.at[1], ret.at[2]) = ret.val

C3_Witness ==
    /\ ret.op = "MatFlatMut::index_mut=" /\ ret.ok /\ ret.val = 0
    /\ strategy = "Columns" /\ ret.at = <<2, 1>>
    /\ \E xy \in XYIndices :
        /\ flat_to_packed(strategy, xy[1], xy[2])[1] \in ValidRows
        /\ flat_to_packed(strategy, xy[1], xy[2])[2] \in ValidFlat
        /\ MatFlat_index(xy[1], xy[2]) = 1

\* The packed row and the offset in it that a successful flat write stored at
FlatStoredAt ==
    CASE ret.op = "VecD::flat_mut=" -> <<0, ret.at[1]>>
      [] ret.op = "MatFlatMut::index_mut=" /\ strategy = "Rows" -> <<ret.at[1], ret.at[2]>>
      [] ret.op = "MatFlatMut::index_mut=" /\ strategy = "Columns" -> <<ret.at[2], ret.at[1]>>
      [] OTHER -> <<ret.at[1], ret.at[2]>>

\* The packed row and the vector in it that a successful packed write stored at
PackedStoredAt ==
    IF kind = "VecD" THEN <<0, ret.at[1]>> ELSE <<ret.at[1], ret.at[2]>>

\* C4: the flat and the packed view address the same memory: flat offset k of
\* packed row r is lane k mod LANES of storage[r * vectors_per_row + k div
\* LANES]; a flat write lands in that lane, and a vector written through
\* packed access is what the flat view reads at its offsets.
C4_FlatPackedSameMemory ==
    /\ \A r \in ValidRows, k \in ValidFlat :
        /\ PackedMxN_row_as_flat(r)[k + 1] =
               data[r * vectors_per_row + (k \div LANES) + 1][(k % LANES) + 1]
        /\ kind = "VecD" =>
               VecD_flat[k + 1] = data[(k \div LANES) + 1][(k % LANES) + 1]
    /\ (ret.op \in FlatWriteOps /\ ret.ok) =>
        LET r == FlatStoredAt[1]
            k == FlatStoredAt[2]
            loc == PackedMxN_location(vectors_per_row, LANES, r, k)
        IN  /\ data[r * vectors_per_row + (k \div LANES) + 1][(k % LANES) + 1] = ret.val
            /\ loc = <<r * vectors_per_row + (k \div LANES), k % LANES>>
    /\ (ret.op \in PackedWriteOps /\ ret.ok) =>
        LET r == PackedStoredAt[1]
            j == PackedStoredAt[2]
        IN  \A l \in 0..(LANES - 1) :
                (j * LANES + l < row_length) =>
                    /\ PackedMxN_row_as_flat(r)[j * LANES + l + 1] = ret.vec[l + 1]
                    /\ kind = "VecD" => VecD_flat[j * LANES + l + 1] = ret.vec[l + 1]

C4_Witness ==
    /\ ret.op = "MatSimd::row_mut=" /\ ret.ok
    /\ ret.at = <<1, 1>> /\ ret.vec = <<1, 0>>
    /\ row_length = 3 /\ LANES = 2
    /\ PackedMxN_row_as_flat(1) = <<0, 0, 1>>

\* The indices of storage that range_for_row(r) covers
RangeSet(r) == {i \in 0..(rows * vectors_per_row + 1) :
                    range_for_row(r)[1] <= i /\ i < range_for_row(r)[2]}

\* C5: row_start_offset(r) = r * vectors_per_row, range_for_row(r) is
\* [r * vectors_per_row, (r + 1) * vectors_per_row), the ranges of distinct
\* rows are disjoint and together they are exactly [0, storage.length).
C5_RowRangesPartitionStorage ==
    /\ \A r \in ValidRows :
        /\ row_start_offset(r) = r * vectors_per_row
        /\ range_for_row(r) = <<r * vectors_per_row, (r + 1) * vectors_per_row>>
    /\ \A r1, r2 \in ValidRows : r1 # r2 => RangeSet(r1) \cap RangeSet(r2) = {}
    /\ UNION {RangeSet(r) : r \in ValidRows} = 0..(Len(data) - 1)
    /\ (ret.op = "PackedMxN::range_for_row") =>
        \E r \in RowIndices : ret.vec = <<r * vectors_per_row, (r + 1) * vectors_per_row>>
    /\ (ret.op = "PackedMxN::row_start_offset") =>
        \E r \in RowIndices : ret.val = r * vectors_per_row

C5_Witness ==
    /\ ret.op = "PackedMxN::range_for_row" /\ ret.vec = <<8, 12>>
    /\ rows = 10 /\ vectors_per_row = 4 /\ Len(data) = 40

\* C6: storage.length = rows * vectors_per_row in every state, and rows,
\* row_length and vectors_per_row keep the values computed at construction.
C6_LayoutNeverChanges ==
    /\ Len(data) = rows * vectors_per_row
    /\ \A i \in 1..Len(data) : data[i] \in [1..LANES -> Elements]
    /\ kind = "VecD" =>
        /\ rows = 1 /\ row_length = ctor[2]
        /\ vectors_per_row =
               PackedMxN_with(splat(ctor[1], LANES), 1, ctor[2], LANES).vectors_per_row
    /\ kind = "MatSimd" =>
        /\ rows = MatSimd_simd_rows(strategy, ctor[1], ctor[2], LANES).rows
        /\ row_length = MatSimd_simd_rows(strategy, ctor[1], ctor[2], LANES).row_length
        /\ vectors_per_row =
               MatSimd_simd_rows(strategy, ctor[1], ctor[2], LANES).vectors_per_row

C6_Witness ==
    /\ ret.op = "MatSimd::column_mut=" /\ ret.ok /\ ret.at = <<0, 0>>
    /\ rows = 3 /\ Len(data) = 3
    /\ data[1] = <<1, 1>> /\ data[3] = <<0, 1>>

\* The ceiling of a / b
CeilDiv(a, b) == (a + b - 1) \div b

OtherStrategy(s) == IF s = "Rows" THEN "Columns" ELSE "Rows"

\* C7: a row-optimized with_dimension(width, height) allocates width *
\* ceil(height / LANES) vectors, a column-optimized one height * ceil(width /
\* LANES); so Rows (w, h) and Columns (h, w) have the same storage length
\* (LANES = 4: 5x5 gives 10, Rows (1,4) and Columns (4,1) give 1, Rows (4,1)
\* and Columns (1,4) give 4).
C7_MatrixAllocationSize ==
    kind = "MatSimd" =>
        LET width == ctor[1]
            height == ctor[2]
        IN  /\ strategy = "Rows" => Len(data) = width * CeilDiv(height, LANES)
            /\ strategy = "Columns" => Len(data) = height * CeilDiv(width, LANES)
            /\ Len(data) =
                   Len(MatSimd_simd_rows(OtherStrategy(strategy), height, width, LANES).data)
            /\ (LANES = 4 /\ ctor = <<5, 5>>) => Len(data) = 10
            /\ (LANES = 4 /\ strategy = "Rows" /\ ctor = <<1, 4>>) => Len(data) = 1
            /\ (LANES = 4 /\ strategy = "Columns" /\ ctor = <<4, 1>>) => Len(data) = 1
            /\ (LANES = 4 /\ strategy = "Rows" /\ ctor = <<4, 1>>) => Len(data) = 4
            /\ (LANES = 4 /\ strategy = "Columns" /\ ctor = <<1, 4>>) => Len(data) = 4

C7_Witness ==
    /\ kind = "MatSimd" /\ strategy = "Columns" /\ ret.op = "MatSimd::with_dimension"
    /\ LANES = 4 /\ ctor = <<1, 4>> /\ Len(data) = 4

\* C8: dimension() is the inverse of with_dimension: it returns the (width,
\* height) the matrix was built with, also after reads and writes.
C8_DimensionInvertsWithDimension ==
    kind = "MatSimd" =>
        /\ MatSimd_dimension = ctor
        /\ ret.op = "MatSimd::dimension" => ret.ok /\ ret.vec = ctor

C8_Witness ==
    /\ ret.op = "MatSimd::dimension" /\ strategy = "Columns"
    /\ ret.vec = <<3, 2>> /\ rows = 2
    /\ \E i \in 1..Len(data) : data[i] # splat(DefaultElement, LANES)

\* The matrix accessor along the packed axis: row_as_flat on a row-optimized
\* matrix, column_as_flat on a column-optimized one
AxisAsFlat(i) ==
    IF strategy = "Rows" THEN MatSimd_row_as_flat(i) ELSE MatSimd_column_as_flat(i)

\* C9: flat[(x, y)] is row_as_flat(x)[y] on a row-optimized matrix and
\* column_as_flat(y)[x] on a column-optimized one, for reads through MatFlat
\* and MatFlatMut and for writes through MatFlatMut.
C9_FlatIndexIsAxisFlat ==
    kind = "MatSimd" =>
        /\ \A x \in 0..(ctor[1] - 1), y \in 0..(ctor[2] - 1) :
            LET i == IF strategy = "Rows" THEN x ELSE y
                o == IF strategy = "Rows" THEN y ELSE x
            IN  /\ RowSliceOk(i)
                /\ o < Len(AxisAsFlat(i))
                /\ RowSliceOk(flat_to_packed(strategy, x, y)[1])
                /\ flat_to_packed(strategy, x, y)[2] < row_length
                /\ MatFlat_index(x, y) = AxisAsFlat(i)[o + 1]
                /\ MatFlatMut_index(x, y) = AxisAsFlat(i)[o + 1]
        /\ (ret.op = "MatFlatMut::index_mut=" /\ ret.ok) =>
            LET i == IF strategy = "Rows" THEN ret.at[1] ELSE ret.at[2]
                o == IF strategy = "Rows" THEN ret.at[2] ELSE ret.at[1]
            IN  /\ RowSliceOk(i)
                /\ o < Len(AxisAsFlat(i))
                /\ AxisAsFlat(i)[o + 1] = ret.val
        /\ (ret.op \in {"MatFlat::index", "MatFlatMut::index"} /\ ret.ok) =>
            \E x \in 0..(ctor[1] - 1), y \in 0..(ctor[2] - 1) :
                ret.val = AxisAsFlat(IF strategy = "Rows" THEN x ELSE y)
                              [(IF strategy = "Rows" THEN y ELSE x) + 1]

C9_Witness ==
    /\ ret.op = "MatFlatMut::index_mut=" /\ ret.ok /\ ret.val = 1
    /\ strategy = "Columns" /\ ret.at = <<0, 2>>
    /\ MatSimd_column_as_flat(2) = <<1, 0>>
    /\ MatSimd_column_as_flat(0) = <<0, 1>>

\* C10 as stated: an index (x, y) that is valid on a matrix of dimensions
\* (w, h) and on the matrix of the other strategy with the swapped dimensions
\* (h, w) resolves to the same vector and lane of the storage in both.
C10_SameIndexSameLocation ==
    kind = "MatSimd" =>
        LET other == OtherStrategy(strategy)
            q == MatSimd_simd_rows(other, ctor[2], ctor[1], LANES)
        IN  \A x \in 0..(ctor[1] - 1), y \in 0..(ctor[2] - 1) :
                (x < ctor[2] /\ y < ctor[1]) =>
                    MatFlat_location(strategy, vectors_per_row, LANES, x, y) =
                        MatFlat_location(other, q.vectors_per_row, LANES, x, y)

\* C10, amended: the index (x, y) on a matrix of dimensions (w, h) and the
\* transposed index (y, x) on the matrix of the other strategy with the
\* swapped dimensions (h, w) resolve to the same vector and lane of the
\* storage, and the two matrices have the same packed layout.
C10_TransposedIndexSameLocation ==
    kind = "MatSimd" =>
        LET other == OtherStrategy(strategy)
            q == MatSimd_simd_rows(other, ctor[2], ctor[1], LANES)
        IN  /\ q.rows = rows /\ q.row_length = row_length
            /\ q.vectors_per_row = vectors_per_row
            /\ \A x \in 0..(ctor[1] - 1), y \in 0..(ctor[2] - 1) :
                /\ MatFlat_location(strategy, vectors_per_row, LANES, x, y) =
                       MatFlat_location(other, q.vectors_per_row, LANES, y, x)
                /\ flat_to_packed(other, y, x)[1] < q.rows
                /\ flat_to_packed(other, y, x)[2] < q.row_length
            /\ (ret.op = "MatFlatMut::index_mut=" /\ ret.ok) =>
                LET loc == MatFlat_location(other, q.vectors_per_row, LANES,
                                            ret.at[2], ret.at[1])
                IN  /\ loc[1] < Len(data)
                    /\ data[loc[1] + 1][loc[2] + 1] = ret.val

C10_Witness ==
    /\ ret.op = "MatFlatMut::index_mut=" /\ ret.ok /\ ret.val = 1
    /\ strategy = "Rows" /\ ctor = <<2, 3>> /\ ret.at = <<1, 2>>
    /\ data = <<<<0, 0>>, <<0, 0>>, <<0, 0>>, <<1, 0>>>>

RowAccessors == {"SimdMatrix::row", "SimdMatrix::row_mut", "SimdMatrix::row_iter"}
ColumnAccessors == {"SimdMatrix::column", "SimdMatrix::column_mut", "SimdMatrix::column_iter"}
RowFlatAccessors == {"SimdMatrix::row_as_flat", "SimdMatrix::row_as_flat_mut"}
ColumnFlatAccessors == {"SimdMatrix::column_as_flat", "SimdMatrix::column_as_flat_mut"}

\* The call failed at the assertion and returned nothing
FailedWrongAxis == ~ret.ok /\ ret.err = WrongAxisAccess /\ ret.len = -1 /\ ret.vec = NoVec

\* C11: on a column-optimized SimdMatrix every row / row_mut / row_iter call
\* fails with the assertion and returns nothing, on a row-optimized one every
\* column / column_mut / column_iter call does, for every index and shape; the
\* accessor that matches the strategy never fails this way (column-optimized
\* 5x5 at 4 lanes: column(0) has 2 vectors, row(0) is a WrongAxisAccess).  A
\* MatSimd has only the accessors of its own axis.
C11_WrongAxisFailsLoudly ==
    /\ kind = "SimdMatrix" =>
        /\ (strategy = "ColumnOptimized" /\ ret.op \in RowAccessors) => FailedWrongAxis
        /\ (strategy = "RowOptimized" /\ ret.op \in ColumnAccessors) => FailedWrongAxis
        /\ (strategy = "RowOptimized" /\ ret.op \in RowAccessors) =>
            ret.err # WrongAxisAccess
        /\ (strategy = "ColumnOptimized" /\ ret.op \in ColumnAccessors) =>
            ret.err # WrongAxisAccess
        /\ (strategy = "ColumnOptimized" /\ LANES = 4 /\ ctor = <<5, 5>>) =>
            /\ Len(data) = 10
            /\ (ret.op = "SimdMatrix::column" /\ ret.at = <<0>>) => ret.ok /\ ret.len = 2
            /\ ret.op = "SimdMatrix::row" => ~ret.ok /\ ret.err = WrongAxisAccess
        /\ iter.live => \/ strategy = "RowOptimized" /\ assert_row(strategy)
                        \/ strategy = "ColumnOptimized" /\ assert_column(strategy)
    /\ kind = "MatSimd" => ret.err # WrongAxisAccess

C11_Witness ==
    /\ kind = "SimdMatrix" /\ strategy = "ColumnOptimized" /\ LANES = 4 /\ ctor = <<5, 5>>
    /\ ret.op = "SimdMatrix::row" /\ ret.at = <<0>> /\ ret.err = WrongAxisAccess

\* C12 as stated: on a SimdMatrix of either strategy row_as_flat(i),
\* row_as_flat_mut(i), column_as_flat(i) and column_as_flat_mut(i) with an index
\* that is in range along both axes return a flat slice and never fail with
\* WrongAxisAccess.
C12_AxisAsFlatAlwaysPermitted ==
    (/\ kind = "SimdMatrix"
     /\ ret.op \in RowFlatAccessors \cup ColumnFlatAccessors
     /\ ret.at[1] < ctor[1] /\ ret.at[1] < ctor[2]) =>
        ret.ok /\ ret.err # WrongAxisAccess

\* C12, amended: the flat accessor of the optimized axis (row_as_flat(_mut) on
\* a row-optimized matrix, column_as_flat(_mut) on a column-optimized one) with
\* an in-range index returns a flat slice of length row_length and never fails
\* with WrongAxisAccess; on a SimdMatrix of the other strategy the flat
\* accessor fails with WrongAxisAccess for every index, like the raw accessor
\* it calls, and a MatSimd does not have it.
C12_OptimizedAxisAsFlatPermitted ==
    /\ kind = "SimdMatrix" =>
        /\ (strategy = "RowOptimized" /\ ret.op \in RowFlatAccessors) =>
            /\ ret.err # WrongAxisAccess
            /\ ret.at[1] < ctor[1] => ret.ok /\ ret.len = row_length /\ ret.len = ctor[2]
        /\ (strategy = "ColumnOptimized" /\ ret.op \in ColumnFlatAccessors) =>
            /\ ret.err # WrongAxisAccess
            /\ ret.at[1] < ctor[2] => ret.ok /\ ret.len = row_length /\ ret.len = ctor[1]
        /\ (strategy = "ColumnOptimized" /\ ret.op \in RowFlatAccessors) => FailedWrongAxis
        /\ (strategy = "RowOptimized" /\ ret.op \in ColumnFlatAccessors) => FailedWrongAxis
    /\ kind = "MatSimd" =>
        /\ ret.op \in {"MatSimd::row_as_flat", "MatSimd::row_as_flat_mut"} =>
            /\ strategy = "Rows"
            /\ ret.at[1] < ctor[1] => ret.ok /\ ret.len = row_length /\ ret.len = ctor[2]
        /\ ret.op \in {"MatSimd::column_as_flat", "MatSimd::column_as_flat_mut"} =>
            /\ strategy = "Columns"
            /\ ret.at[1] < ctor[2] => ret.ok /\ ret.len = row_length /\ ret.len = ctor[1]

C12_Witness ==
    /\ kind = "SimdMatrix" /\ strategy = "RowOptimized" /\ ctor = <<3, 5>>
    /\ ret.op = "SimdMatrix::column_as_flat" /\ ret.at = <<1>>
    /\ ~ret.ok /\ ret.err = WrongAxisAccess

\* The accessors of MatSimd and PackedMxN that slice the storage by a row index
SlicingAccessors ==
    {"MatSimd::row", "MatSimd::row_mut", "MatSimd::row_as_flat", "MatSimd::row_as_flat_mut",
     "MatSimd::column", "MatSimd::column_mut", "MatSimd::column_as_flat",
     "MatSimd::column_as_flat_mut", "PackedMxN::row_as_flat", "PackedMxN::row_as_flat_mut"}

C14_VecPackedIndexing ==
    [][ret'.op \in {"VecD::index", "VecD::index_mut="} =>
          LET i == ret'.at[1]
          IN  /\ vectors_per_row = CeilDiv(ctor[2], LANES)
              /\ Len(data) = vectors_per_row
              /\ ret'.ok <=> i < vectors_per_row
              /\ ~ret'.ok => ret'.err = IndexOutOfBounds /\ data' = data
              /\ (ret'.ok /\ ret'.op = "VecD::index") =>
                    /\ ret'.vec = data[i + 1]
                    /\ Len(ret'.vec) = LANES
                    /\ data' = data
              /\ (ret'.ok /\ ret'.op = "VecD::index_mut=") =>
                    /\ Len(data') = Len(data)
                    /\ data'[i + 1] = ret'.vec
                    /\ \A j \in 1..Len(data) : j # i + 1 => data'[j] = data[j]
       ]_vars

C14_Witness ==
    /\ ret.op = "VecD::index_mut=" /\ ~ret.ok /\ ret.err = IndexOutOfBounds
    /\ ret.at = <<3>> /\ vectors_per_row = 3 /\ ctor[2] = 5
    /\ data = <<<<0, 0>>, <<1, 0>>, <<0, 1>>>>

\* The value the container was filled with at construction
FillValue == IF kind = "VecD" THEN ctor[1] ELSE DefaultElement

\* C15: PackedMxN::with stores rows * vectors_per_row copies of the default
\* vector: right after VecD::with(t, size) every flat element k < size reads t
\* and every lane of every vector, padding included, is t; right after
\* with_dimension every flat element (x, y) reads the default of the element type.
C15_InitialFill ==
    ret.op \in {"VecD::with", "MatSimd::with_dimension"} =>
        /\ Len(data) = rows * vectors_per_row
        /\ \A i \in 1..Len(data) :
            /\ data[i] = splat(FillValue, LANES)
            /\ \A l \in 1..LANES : data[i][l] = FillValue
        /\ kind = "VecD" =>
            /\ Len(VecD_flat) = ctor[2]
            /\ \A k \in 0..(ctor[2] - 1) : VecD_flat[k + 1] = ctor[1]
        /\ kind = "MatSimd" =>
            \A x \in 0..(ctor[1] - 1), y \in 0..(ctor[2] - 1) :
                /\ RowSliceOk(flat_to_packed(strategy, x, y)[1])
                /\ flat_to_packed(strategy, x, y)[2] < row_length
                /\ MatFlat_index(x, y) = DefaultElement

C15_Witness ==
    /\ ret.op = "VecD::with" /\ ctor = <<1, 5>> /\ LANES = 4
    /\ data = <<<<1, 1, 1, 1>>, <<1, 1, 1, 1>>>>

\* The packed axis of a MatSimd: the number of rows or columns `a` that have
\* a packed slice, and their flat length `b`
AxisCount == IF strategy = "Rows" THEN ctor[1] ELSE ctor[2]
AxisLength == IF strategy = "Rows" THEN ctor[2] ELSE ctor[1]

\* C16: on a row-optimized matrix built with_dimension(a, b), row(i) and
\* row_mut(i) for i < a are exactly storage[i * vectors_per_row .. (i + 1) *
\* vectors_per_row), of length ceil(b / LANES), which holds at least b scalars;
\* on a column-optimized matrix built with_dimension(w, h), column(i) and
\* column_mut(i) for i < h are the slice of length ceil(w / LANES) at the same
\* offsets.
C16_PackedRowAccess ==
    kind = "MatSimd" =>
        /\ \A i \in 0..(AxisCount - 1) :
            /\ RowSliceOk(i)
            /\ range_for_row(i) = <<i * vectors_per_row, (i + 1) * vectors_per_row>>
            /\ LET slice == [j \in 1..CeilDiv(AxisLength, LANES) |->
                                data[i * vectors_per_row + j]]
               IN  IF strategy = "Rows"
                   THEN MatSimd_row(i) = slice /\ MatSimd_row_mut(i) = slice
                   ELSE MatSimd_column(i) = slice /\ MatSimd_column_mut(i) = slice
            /\ Len(RowSlice(i)) * LANES >= AxisLength
        /\ (ret.op \in {"MatSimd::row", "MatSimd::column"} /\ ret.len # -1) =>
            ret.len = CeilDiv(AxisLength, LANES)
        /\ (ret.op \in {"MatSimd::row_mut=", "MatSimd::column_mut="} /\ ret.ok) =>
            /\ ret.len = CeilDiv(AxisLength, LANES)
            /\ ret.at[1] < AxisCount
            /\ data[ret.at[1] * vectors_per_row + ret.at[2] + 1] = ret.vec

C16_Witness ==
    /\ ret.op = "MatSimd::row" /\ ret.ok /\ strategy = "Rows" /\ ctor = <<2, 3>>
    /\ ret.len = 2 /\ ret.vec = <<0, 1>>
    /\ MatSimd_row(1) = <<<<1, 1>>, <<0, 1>>>>
    /\ MatSimd_row(0) = <<<<0, 0>>, <<0, 0>>>>

\* C19: construction has no error; row_length = 0 gives vectors_per_row = 0
\* and an empty storage for every rows, rows = 0 gives an empty storage for
\* every row_length, with vectors_per_row still ceil(row_length / LANES); rows
\* and row_length are stored as given.
C19_ZeroSizeBoundaries ==
    /\ \A r \in 0..MaxLayoutDim, len \in 0..MaxLayoutDim :
        LET p == PackedMxN_with(splat(DefaultElement, LANES), r, len, LANES)
        IN  /\ p.rows = r /\ p.row_length = len
            /\ len = 0 => p.vectors_per_row = 0 /\ p.data = <<>>
            /\ r = 0 => p.data = <<>> /\ p.vectors_per_row = CeilDiv(len, LANES)
    /\ ret.op \in {"VecD::with", "MatSimd::with_dimension"} => ret.ok
    /\ row_length = 0 => vectors_per_row = 0 /\ data = <<>>
    /\ rows = 0 => data = <<>> /\ vectors_per_row = CeilDiv(row_length, LANES)
    /\ kind = "VecD" => rows = 1 /\ row_length = ctor[2]
    /\ kind = "MatSimd" => <<rows, row_length>> = flat_to_packed(strategy, ctor[1], ctor[2])

C19_Witness ==
    /\ ret.op = "MatSimd::with_dimension" /\ strategy = "Columns" /\ ctor = <<5, 0>>
    /\ LANES = 4 /\ rows = 0 /\ row_length = 5 /\ vectors_per_row = 2 /\ data = <<>>

NextOps == {"Matrix2DIter::next", "SimdMatrixIter::next"}
IterOps == {"MatSimd::row_iter", "MatSimd::column_iter",
            "SimdMatrix::row_iter", "SimdMatrix::column_iter"}

\* C17: a new row_iter() / column_iter() yields on successive next() calls
\* the packed slices of rows 0, 1, ..., rows - 1 in that order, the k-th being
\* storage[k * vectors_per_row .. (k + 1) * vectors_per_row), exactly rows
\* items in all (5 for a 5x5 matrix); a new iterator starts again at row 0.
C17_IterationOrderAndCount ==
    /\ iter.live => iter.index = iter.yielded /\ iter.yielded <= rows
    /\ (ret.op \in NextOps /\ ret.ok /\ ret.at # NoIndex) =>
        LET k == ret.at[1]
        IN  /\ k = iter.yielded - 1
            /\ k < rows
            /\ ret.vec = <<k * vectors_per_row, (k + 1) * vectors_per_row>>
            /\ ret.len = vectors_per_row
            /\ SliceOk(data, ret.vec) /\ Slice(data, ret.vec) = RowSlice(k)
    /\ (ret.op \in NextOps /\ ret.ok /\ ret.at = NoIndex) =>
        /\ iter.yielded = rows
        /\ ctor = <<5, 5>> => iter.yielded = 5
    /\ (ret.op \in IterOps /\ ret.ok) =>
        /\ iter.live /\ iter.index = 0 /\ iter.yielded = 0
        /\ rows > 0 => Matrix2DIter_next(iter.index).some
                       /\ Matrix2DIter_next(iter.index).row = 0

C17_Witness ==
    /\ ret.op = "Matrix2DIter::next" /\ ret.ok /\ ret.at = <<4>>
    /\ strategy = "Columns" /\ ctor = <<5, 5>> /\ LANES = 4
    /\ ret.vec = <<8, 10>> /\ iter.yielded = 5

\* C18: for every matrix, rows = 0 and row_length = 0 included, calling
\* next() again and again reaches the state where next() returns no item,
\* after exactly rows items; from then on every next() returns no item and
\* leaves the index unchanged; no next() call fails.
C18_IterationTerminates ==
    /\ [](/\ ret.op \in NextOps => ret.ok
          /\ (ret.op \in NextOps /\ ret.at = NoIndex) => iter.done
          /\ iter.done =>
                /\ iter.yielded = rows /\ iter.index = rows
                /\ ~Matrix2DIter_next(iter.index).some
                /\ Matrix2DIter_next(iter.index).index = iter.index)
    /\ [][iter.done => (iter'.done /\ iter'.index = iter.index /\ ret'.at = NoIndex)]_vars
    /\ (iter.live ~> iter.done)

C18_Witness ==
    /\ iter.done /\ iter.yielded = 5 /\ kind = "MatSimd" /\ strategy = "Rows"
    /\ ctor = <<5, 0>> /\ row_length = 0 /\ data = <<>>
    /\ ret.op = "Matrix2DIter::next" /\ ret.at = NoIndex

\* The contiguous slices of the storage, the empty ones included
SubSlices == {SubSeq(data, a + 1, b) : a \in 0..Len(data), b \in 0..Len(data)}

\* C20: for every slice of packed vectors, the empty slice included,
\* packed_as_flat and packed_as_flat_mut return a flat slice of length
\* data.len() * LANES whose element k is lane k mod LANES of data[k div LANES].
C20_WholeSliceFlattening ==
    /\ \A s \in SubSlices :
        /\ Len(packed_as_flat(s)) = Len(s) * LANES
        /\ Len(packed_as_flat_mut(s)) = Len(s) * LANES
        /\ \A k \in 0..(Len(s) * LANES - 1) :
            /\ packed_as_flat(s)[k + 1] = s[(k \div LANES) + 1][(k % LANES) + 1]
            /\ packed_as_flat_mut(s)[k + 1] = s[(k \div LANES) + 1][(k % LANES) + 1]
    /\ packed_as_flat(<<>>) = <<>>
    /\ (ret.op \in {"packed_as_flat", "packed_as_flat_mut="} /\ ret.len # -1) =>
        ret.len = Len(data) * LANES
    /\ (ret.op = "packed_as_flat" /\ ret.ok) =>
        ret.val = data[(ret.at[1] \div LANES) + 1][(ret.at[1] % LANES) + 1]
    /\ (ret.op = "packed_as_flat_mut=" /\ ret.ok) =>
        data[(ret.at[1] \div LANES) + 1][(ret.at[1] % LANES) + 1] = ret.val

C20_Witness ==
    /\ ret.op = "packed_as_flat_mut=" /\ ret.ok /\ ret.at = <<5>> /\ ret.val = 1
    /\ ctor[2] = 5 /\ ret.len = 6
    /\ data = <<<<0, 0>>, <<0, 1>>, <<0, 1>>>>

\* C23: wherever the public API reaches simd_container_flat_slice(_mut), the
\* requested length is at most slice.len() * LANES: for the whole storage of a
\* VecD, for every row slice that can be taken, and for packed_as_flat(_mut)
\* of every slice; no call is an InvalidReinterpretation, in every state.
C23_FlatPreconditionHolds ==
    /\ ret.err # InvalidReinterpretation
    /\ row_length <= vectors_per_row * LANES
    /\ kind = "VecD" => FlatOk(WholeSlice, row_length)
    /\ \A row \in AxisIndices : RowSliceOk(row) => FlatOk(RowSlice(row), row_length)
    /\ \A s \in SubSlices : FlatOk(s, Len(s) * LANES)

C23_Witness ==
    /\ ret.op = "MatSimd::row_as_flat_mut=" /\ ret.ok /\ ret.at = <<1, 2>> /\ ret.val = 1
    /\ row_length = 3 /\ vectors_per_row = 2
    /\ data = <<<<0, 0>>, <<0, 0>>, <<0, 0>>, <<1, 0>>>>

Flat2DOps == {"MatFlat::index", "MatFlatMut::index", "MatFlatMut::index_mut="}

\* The 2-D indices tried: those the translation reaches and the square around
\* the dimensions
C24_Indices == XYIndices \cup ((0..ctor[1]) \X (0..ctor[2]))

\* C24: on a matrix of either strategy built with_dimension(width, height), a
\* read or write at the flat index (x, y) succeeds exactly when x < width and
\* y < height; any other index, the offsets in the padding lanes of a row
\* included, fails with an out-of-bounds panic and leaves the matrix unchanged.
C24_FlatIndexValidity ==
    /\ [](kind = "MatSimd" =>
            /\ \A xy \in C24_Indices :
                LET p == flat_to_packed(strategy, xy[1], xy[2])
                IN  (/\ RowSliceOk(p[1])
                     /\ FlatOk(RowSlice(p[1]), row_length)
                     /\ p[2] < Len(PackedMxN_row_as_flat(p[1]))
                     /\ p[2] < Len(PackedMxN_row_as_flat_mut(p[1])))
                    <=> (xy[1] < ctor[1] /\ xy[2] < ctor[2])
            /\ \A row \in ValidRows, k \in row_length..(vectors_per_row * LANES - 1) :
                k >= Len(PackedMxN_row_as_flat(row))
            /\ (ret.op \in Flat2DOps /\ ~ret.ok) => ret.err = IndexOutOfBounds
            /\ (ret.op = "MatFlatMut::index_mut=" /\ ret.ok) =>
                ret.at[1] < ctor[1] /\ ret.at[2] < ctor[2])
    /\ [][(ret'.op \in Flat2DOps /\ ~ret'.ok) => (data' = data /\ layout' = layout)]_vars

C24_Witness ==
    /\ ret.op = "MatFlatMut::index_mut=" /\ ~ret.ok /\ ret.len = 3
    /\ strategy = "Columns" /\ ctor = <<3, 1>> /\ vectors_per_row = 2
    /\ data = <<<<1, 0>>, <<1, 0>>>>

\* The packed row and the offset in it a flat write with result r stored at
FlatStoredAtOf(r) ==
    CASE r.op = "VecD::flat_mut=" -> <<0, r.at[1]>>
      [] r.op = "MatFlatMut::index_mut=" /\ strategy = "Columns" -> <<r.at[2], r.at[1]>>
      [] OTHER -> <<r.at[1], r.at[2]>>

\* C25: a write at one valid flat index (k of a vector, (x, y) of a matrix, k
\* of a row or column taken as flat) changes exactly one scalar of the storage:
\* every other scalar of the row, every scalar of the other rows, every padding
\* lane and the layout are unchanged.
C25_ScalarWriteFrame ==
    [][(ret'.op \in FlatWriteOps /\ ret'.ok) =>
          LET r == FlatStoredAtOf(ret')[1]
              k == FlatStoredAtOf(ret')[2]
              loc == PackedMxN_location(vectors_per_row, LANES, r, k)
          IN  /\ layout' = layout
              /\ Len(data') = Len(data)
              /\ r < rows /\ k < row_length
              /\ loc[1] < Len(data)
              /\ data'[loc[1] + 1][loc[2] + 1] = ret'.val
              /\ \A i \in 1..Len(data), l \in 1..LANES :
                    <<i - 1, l - 1>> # loc => data'[i][l] = data[i][l]
       ]_vars

C25_Witness ==
    /\ ret.op = "VecD::flat_mut=" /\ ret.ok /\ ret.at = <<2>> /\ ret.val = 1
    /\ ctor[2] = 5
    /\ data = <<<<0, 1>>, <<1, 0>>, <<0, 0>>>>

RowWriteOps ==
    {"MatSimd::row_mut=", "MatSimd::column_mut=", "MatSimd::row_as_flat_mut=",
     "MatSimd::column_as_flat_mut="}

\* C26: a write through a view of packed row i (row_mut, column_mut,
\* row_as_flat_mut, column_as_flat_mut), a write of the padding lanes through
\* the packed view included, changes only storage inside range_for_row(i): the
\* packed and the flat contents of every other row are unchanged.
C26_RowWriteFrame ==
    [][(ret'.op \in RowWriteOps /\ ret'.ok) =>
          LET i == ret'.at[1]
              range == range_for_row(i)
          IN  /\ layout' = layout
              /\ Len(data') = Len(data)
              /\ i < rows /\ RowSliceOk(i)
              /\ \A idx \in 1..Len(data) :
                    ~(range[1] < idx /\ idx <= range[2]) => data'[idx] = data[idx]
              /\ \A j \in ValidRows \ {i} :
                    /\ RowSlice(j)' = RowSlice(j)
                    /\ PackedMxN_row_as_flat(j)' = PackedMxN_row_as_flat(j)
       ]_vars

C26_Witness ==
    /\ ret.op = "MatSimd::column_mut=" /\ ret.ok /\ ret.at = <<1, 0>> /\ ret.vec = <<0, 1>>
    /\ strategy = "Columns" /\ ctor = <<1, 3>> /\ row_length = 1
    /\ data = <<<<1, 0>>, <<0, 1>>, <<0, 0>>>>

------------------------------------------------------------------------------
(* Reads, iterators and writes on one buffer: the reads and the iterators   *)
(* borrow `&self`, the writes need every iterator to be gone.               *)

MaxFrameDim == 3       \* sizes, widths and heights are in 0..MaxFrameDim
MaxFrameScalars == 4   \* rows * vectors_per_row * LANES <= MaxFrameScalars

\* The end of the lifetime 'a of a Matrix2DIter<'a, ..>
IterDrop ==
    /\ iter.live
    /\ iter' = NoIter
    /\ ret' = Returned("drop(Matrix2DIter)", -1, 0, NoVec)
    /\ UNCHANGED <<layout, data, aux>>

InitFrame ==
    \E lanes \in LaneCounts :
        \/ \E t \in Elements, size \in 0..MaxFrameDim :
            /\ Allocation(1, size, lanes) <= MaxFrameScalars
            /\ VecD_with(t, size, lanes)
        \/ \E s \in Strategies, width \in 0..MaxFrameDim, height \in 0..MaxFrameDim :
            /\ Allocation(flat_to_packed(s, width, height)[1],
                          flat_to_packed(s, width, height)[2], lanes) <= MaxFrameScalars
            /\ MatSimd_with_dimension(s, width, height, lanes)

NextFrame ==
    \/ MatDimension
    \/ \E i \in RowIndices, j \in LaneIndices : MatRow(i, j)
    \/ \E i \in RowIndices, j \in LaneIndices : MatColumn(i, j)
    \/ \E i \in RowIndices, k \in FlatIndices : MatRowAsFlat(i, k)
    \/ \E i \in RowIndices, k \in FlatIndices : MatColumnAsFlat(i, k)
    \/ \E xy \in XYIndices : MatFlatIndex(xy[1], xy[2])
    \/ \E xy \in XYIndices : ~iter.live /\ MatFlatMutIndex(xy[1], xy[2])
    \/ \E k \in FlatIndices : VecFlatGet(k)
    \/ \E i \in VecIndices : VecIndex(i)
    \/ \E i \in VecIndices : VecDeref(i)
    \/ MatRowIter
    \/ MatColumnIter
    \/ IterNext
    \/ IterDrop
    \/ \E k \in FlatIndices, e \in Elements : VecFlatMutSet(k, e)
    \/ \E xy \in XYIndices, e \in Elements :
        ~iter.live /\ MatFlatMutIndexMut(xy[1], xy[2], e)
    \/ \E i \in RowIndices, j \in LaneIndices, x \in Vectors : ~iter.live /\ MatRowMut(i, j, x)
    \/ \E i \in RowIndices, j \in LaneIndices, x \in Vectors :
        ~iter.live /\ MatColumnMut(i, j, x)

SpecFrame == InitFrame /\ [][NextFrame]_vars

ReadOps ==
    {"MatSimd::dimension", "MatSimd::row", "MatSimd::column", "MatSimd::row_as_flat",
     "MatSimd::column_as_flat", "MatFlat::index", "MatFlatMut::index", "VecD::flat",
     "VecD::index", "VecD::deref", "MatSimd::row_iter", "MatSimd::column_iter",
     "Matrix2DIter::next"}

\* C27: dimension(), flat(), row(i), column(i), row_as_flat(i),
\* column_as_flat(i), a read through MatFlat / MatFlatMut indexing, VecD
\* indexing and deref, and creating or advancing a row / column iterator leave
\* every storage element and every layout field unchanged, whether the call
\* succeeds or fails, also between writes.
C27_ReadsDoNotMutate ==
    [][ret'.op \in ReadOps => (data' = data /\ layout' = layout)]_vars

C27_Witness ==
    /\ ret.op = "Matrix2DIter::next" /\ ret.ok /\ ret.at = <<1>> /\ iter.yielded = 2
    /\ strategy = "Rows" /\ ctor = <<2, 2>>
    /\ data = <<<<0, 1>>, <<1, 0>>>>

------------------------------------------------------------------------------
(* The layout arithmetic of PackedMxN (src/src/packed.rs) on usize: a `*`   *)
(* or `+` that leaves the word panics in a build with overflow checks (the  *)
(* debug profile) and wraps in one without them (the release profile).      *)

WordBits == 4                  \* usize has WordBits bits
WordSize == 2 ^ WordBits       \* usize::MAX + 1
Words == 0..(WordSize - 1)     \* the values of usize

WrapLaneCounts == {2}          \* T::LANES of the vector types explored by SpecWrap

\* The panic "attempt to multiply / add with overflow"
ArithmeticOverflow == "ArithmeticOverflow"

\* `a * b` and `a + b` on usize: ok is FALSE when the build panics
usize_mul(a, b, checks) == [ok |-> ~(checks /\ a * b >= WordSize), val |-> (a * b) % WordSize]
usize_add(a, b, checks) == [ok |-> ~(checks /\ a + b >= WordSize), val |-> (a + b) % WordSize]

\* PackedMxN::with on usize; ok is FALSE when `vectors_per_row * rows` panics
PackedMxN_with_usize(default, r, len, lanes, checks) ==
    LET vpr == vectors_per_row_for(len, lanes)
        n == usize_mul(vpr, r, checks)
    IN  [ok |-> n.ok, rows |-> r, row_length |-> len, vectors_per_row |-> vpr,
         data |-> IF n.ok THEN vec_repeat(default, n.val) ELSE <<>>]

\* PackedMxN::row_start_offset on usize
row_start_offset_usize(row, checks) == usize_mul(row, vectors_per_row, checks)

\* PackedMxN::range_for_row on usize
range_for_row_usize(row, checks) ==
    LET start == row_start_offset_usize(row, checks)
        end == usize_add(start.val, vectors_per_row, checks)
    IN  [ok |-> start.ok /\ end.ok, val |-> <<start.val, end.val>>]

\* The build the buffer lives in: TRUE with overflow checks
overflow_checks == ctor[3]

\* PackedMxN::<T>::with(T::default(), r, len); after a panic there is no buffer
PackedMxN_construct(r, len, lanes, checks) ==
    LET p == PackedMxN_with_usize(splat(DefaultElement, lanes), r, len, lanes, checks)
    IN  /\ kind = IF p.ok THEN "PackedMxN" ELSE "NoBuffer"
        /\ strategy = "Rows"
        /\ LANES = lanes
        /\ ctor = <<r, len, checks>>
        /\ rows = p.rows
        /\ row_length = p.row_length
        /\ vectors_per_row = p.vectors_per_row
        /\ data = p.data
        /\ ret = IF p.ok THEN Returned("PackedMxN::with", -1, 0, NoVec)
                 ELSE Failed("PackedMxN::with", NoIndex, ArithmeticOverflow)
        /\ iter = NoIter /\ twin = NoTwin /\ borrows = NoBorrows

\* simd_rows.row_start_offset(row)
UsizeRowStartOffset(row) ==
    /\ kind = "PackedMxN"
    /\ LET o == row_start_offset_usize(row, overflow_checks)
       IN  ret' = IF o.ok THEN Indexed("PackedMxN::row_start_offset", <<row>>, -1, o.val, NoVec)
                  ELSE Failed("PackedMxN::row_start_offset", <<row>>, ArithmeticOverflow)
    /\ UNCHANGED <<layout, data, iter, aux>>

\* simd_rows.range_for_row(row)
UsizeRangeForRow(row) ==
    /\ kind = "PackedMxN"
    /\ LET r == range_for_row_usize(row, overflow_checks)
       IN  ret' = IF r.ok THEN Indexed("PackedMxN::range_for_row", <<row>>, -1, 0, r.val)
                  ELSE Failed("PackedMxN::range_for_row", <<row>>, ArithmeticOverflow)
    /\ UNCHANGED <<layout, data, iter, aux>>

\* simd_rows.row_as_flat(row)
UsizeRowAsFlat(row) ==
    /\ kind = "PackedMxN"
    /\ LET r == range_for_row_usize(row, overflow_checks)
       IN  IF ~r.ok
           THEN /\ ret' = Failed("PackedMxN::row_as_flat", <<row>>, ArithmeticOverflow)
                /\ UNCHANGED <<layout, data, iter, aux>>
           ELSE IF ~SliceOk(data, r.val)
                THEN /\ ret' = Failed("PackedMxN::row_as_flat", <<row>>, IndexOutOfBounds)
                     /\ UNCHANGED <<layout, data, iter, aux>>
                ELSE IF ~FlatOk(Slice(data, r.val), row_length)
                     THEN Undefined("PackedMxN::row_as_flat")
                     ELSE /\ ret' = Sliced("PackedMxN::row_as_flat", row,
                                           Len(simd_container_flat_slice(Slice(data, r.val),
                                                                         row_length)),
                                           r.val)
                          /\ UNCHANGED <<layout, data, iter, aux>>

InitWrap ==
    \E lanes \in WrapLaneCounts, r \in Words, len \in Words, checks \in BOOLEAN :
        PackedMxN_construct(r, len, lanes, checks)

NextWrap ==
    \/ \E row \in Words : UsizeRowStartOffset(row)
    \/ \E row \in Words : UsizeRangeForRow(row)
    \/ \E row \in Words : UsizeRowAsFlat(row)

SpecWrap == InitWrap /\ [][NextWrap]_vars

\* C28: for all rows and row_length that are w-bit unsigned integers,
\* PackedMxN::with computes vectors_per_row without overflow and returns a
\* buffer whose storage length is the exact product rows * vectors_per_row,
\* and for every row < rows the start row * vectors_per_row and the end
\* start + vectors_per_row of range_for_row are the exact values, never
\* values reduced modulo 2^w, and lie inside the storage.
C28_NoWrapAround ==
    /\ vectors_per_row = CeilDiv(row_length, LANES) /\ vectors_per_row < WordSize
    /\ kind = "PackedMxN"
    /\ Len(data) = rows * vectors_per_row
    /\ \A row \in 0..(rows - 1), checks \in BOOLEAN :
        /\ range_for_row_usize(row, checks).ok
        /\ range_for_row_usize(row, checks).val =
            <<row * vectors_per_row, row * vectors_per_row + vectors_per_row>>
        /\ SliceOk(data, range_for_row_usize(row, checks).val)

------------------------------------------------------------------------------
(* Two buffers side by side: the buffer of the other sections and its twin, *)
(* constructed with the same arguments and handed the same calls.           *)

\* The PackedMxN of the buffer, as a value
simd_rows ==
    [rows |-> rows, row_length |-> row_length, vectors_per_row |-> vectors_per_row,
     data |-> data]

\* The default value the buffer was constructed with
PairDefault == IF kind = "VecD" THEN ctor[1] ELSE DefaultElement

\* PackedMxN::range_for_row of the PackedMxN b
PackedMxN_range_for_row(b, row) ==
    <<row * b.vectors_per_row, row * b.vectors_per_row + b.vectors_per_row>>

\* What a call may do once it made a flat view longer than its slice: anything
UndefinedOutcomes(b, op) ==
    {[data |-> d,
      ret |-> [op |-> op, ok |-> o, err |-> InvalidReinterpretation, at |-> NoIndex,
               len |-> -1, val |-> v, vec |-> NoVec]] :
        d \in [1..Len(b.data) -> [1..LANES -> Elements]], o \in BOOLEAN, v \in Elements}

\* b.row_as_flat_mut(row)[k] = e: the storage and the result the call may leave
PackedMxN_row_as_flat_mut_store(b, row, k, e) ==
    LET op == "PackedMxN::row_as_flat_mut="
        range == PackedMxN_range_for_row(b, row)
    IN  IF ~SliceOk(b.data, range)
        THEN {[data |-> b.data, ret |-> Panicked(op, -1)]}
        ELSE IF ~FlatOk(Slice(b.data, range), b.row_length)
             THEN UndefinedOutcomes(b, op)
             ELSE LET s == Slice(b.data, range)
                      view == simd_container_flat_slice_mut(s, b.row_length)
                  IN  IF k < Len(view)
                      THEN {[data |-> SliceMutStore(b.data, range, flat_store(s, k, e)),
                             ret |-> Stored(op, <<row, k>>, Len(view), e, NoVec)]}
                      ELSE {[data |-> b.data, ret |-> Panicked(op, Len(view))]}

\* b.row_as_flat(row)[k]: the storage and the result the call may leave
PackedMxN_row_as_flat_get(b, row, k) ==
    LET op == "PackedMxN::row_as_flat"
        range == PackedMxN_range_for_row(b, row)
    IN  IF ~SliceOk(b.data, range)
        THEN {[data |-> b.data, ret |-> Panicked(op, -1)]}
        ELSE IF ~FlatOk(Slice(b.data, range), b.row_length)
             THEN UndefinedOutcomes(b, op)
             ELSE LET view == simd_container_flat_slice(Slice(b.data, range), b.row_length)
                  IN  IF k < Len(view)
                      THEN {[data |-> b.data,
                             ret |-> Indexed(op, <<row, k>>, Len(view), view[k + 1], NoVec)]}
                      ELSE {[data |-> b.data, ret |-> Panicked(op, Len(view))]}

\* A second buffer is constructed with the arguments of the first
PairConstruct ==
    /\ twin = NoTwin
    /\ LET p == PackedMxN_with(splat(PairDefault, LANES), rows, row_length, LANES)
       IN  twin' = [rows |-> p.rows, row_length |-> p.row_length,
                    vectors_per_row |-> p.vectors_per_row, data |-> p.data, ret |-> ret]
    /\ UNCHANGED <<layout, data, ret, iter, borrows>>

\* The same flat write on both buffers (row 0 is the whole of a VecD)
PairFlatSet(row, k, e) ==
    /\ twin # NoTwin
    /\ kind = "VecD" => row = 0
    /\ \E o1 \in PackedMxN_row_as_flat_mut_store(simd_rows, row, k, e),
          o2 \in PackedMxN_row_as_flat_mut_store(twin, row, k, e) :
            /\ data' = o1.data
            /\ ret' = o1.ret
            /\ twin' = [twin EXCEPT !.data = o2.data, !.ret = o2.ret]
    /\ UNCHANGED <<layout, iter, borrows>>

\* The same flat read on both buffers
PairFlatGet(row, k) ==
    /\ twin # NoTwin
    /\ kind = "VecD" => row = 0
    /\ \E o1 \in PackedMxN_row_as_flat_get(simd_rows, row, k),
          o2 \in PackedMxN_row_as_flat_get(twin, row, k) :
            /\ data' = o1.data
            /\ ret' = o1.ret
            /\ twin' = [twin EXCEPT !.data = o2.data, !.ret = o2.ret]
    /\ UNCHANGED <<layout, iter, borrows>>

NextPair ==
    \/ PairConstruct
    \/ \E row \in RowIndices, k \in FlatIndices, e \in Elements : PairFlatSet(row, k, e)
    \/ \E row \in RowIndices, k \in FlatIndices : PairFlatGet(row, k)

SpecPair == Init /\ [][NextPair]_vars

------------------------------------------------------------------------------
(* The borrows of one buffer.  Every view is a reference whose lifetime is  *)
(* that of the borrow of `self` the call took: a call is accepted when the  *)
(* borrow of its receiver is, and the view it returns lives until released. *)

MaxViews == 3          \* at most MaxViews views are alive at a time

\* The calls whose signature takes `&self`; every other call takes `&mut self`
SharedReceivers ==
    {"VecD::flat", "VecD::deref", "MatSimd::flat", "MatSimd::row", "MatSimd::row_as_flat",
     "MatSimd::row_iter", "MatSimd::column", "MatSimd::column_as_flat",
     "MatSimd::column_iter", "Matrix2DIter::next"}

\* The calls whose signature returns `&mut ..` or a struct holding `&'a mut ..`
UniqueViews ==
    {"VecD::flat_mut", "VecD::deref_mut", "MatSimd::flat_mut", "MatSimd::row_mut",
     "MatSimd::row_as_flat_mut", "MatSimd::column_mut", "MatSimd::column_as_flat_mut"}

\* A mutation of receiver: every call takes `&self`
receiver_shared(op) == "&"

\* The borrow of the buffer the call takes
receiver(op) == IF op \in SharedReceivers THEN "&" ELSE "&mut"

\* The reference the call returns
returned(op) == IF op \in UniqueViews THEN "&mut" ELSE "&"

\* A borrow r of the buffer is accepted: `&` next to shared borrows only,
\* `&mut` next to none
may_borrow(b, r) == b.alive /\ b.unique = 0 /\ (r = "&mut" => b.shared = 0)

\* The accessors of the buffer: those of its type and of its axis
Accessors ==
    IF kind = "VecD"
    THEN {"VecD::flat", "VecD::flat_mut", "VecD::deref", "VecD::deref_mut"}
    ELSE {"MatSimd::flat", "MatSimd::flat_mut"}
         \cup (IF strategy = "Rows"
               THEN {"MatSimd::row", "MatSimd::row_mut", "MatSimd::row_as_flat",
                     "MatSimd::row_as_flat_mut", "MatSimd::row_iter"}
               ELSE {"MatSimd::column", "MatSimd::column_mut", "MatSimd::column_as_flat",
                     "MatSimd::column_as_flat_mut", "MatSimd::column_iter"})

\* The borrow op takes is accepted: the view it returns is alive from now on
Borrowed(op) ==
    /\ may_borrow(borrows, receiver(op))
    /\ borrows.shared + borrows.unique < MaxViews
    /\ borrows' = IF returned(op) = "&mut"
                  THEN [borrows EXCEPT !.unique = @ + 1]
                  ELSE [borrows EXCEPT !.shared = @ + 1]
    /\ ret' = Returned(op, -1, 0, NoVec)
    /\ UNCHANGED <<layout, data, iter, twin>>

\* The call of the accessor op on the buffer
ViewCall(op) == op \in Accessors /\ Borrowed(op)

\* iter.next(): the item `&'a [T]` borrows the matrix as the iterator does
ViewIterItem ==
    /\ kind = "MatSimd" /\ borrows.shared > 0
    /\ ret.op \in {"MatSimd::row_iter", "MatSimd::column_iter", "Matrix2DIter::next"}
    /\ Borrowed("Matrix2DIter::next")

\* The last use of an immutable view
ReleaseShared ==
    /\ borrows.shared > 0
    /\ borrows' = [borrows EXCEPT !.shared = @ - 1]
    /\ ret' = Returned("release(&)", -1, 0, NoVec)
    /\ UNCHANGED <<layout, data, iter, twin>>

\* The last use of a mutable view
ReleaseUnique ==
    /\ borrows.unique > 0
    /\ borrows' = [borrows EXCEPT !.unique = @ - 1]
    /\ ret' = Returned("release(&mut)", -1, 0, NoVec)
    /\ UNCHANGED <<layout, data, iter, twin>>

\* The buffer is dropped or moved: accepted when nothing borrows it
BufferDrop ==
    /\ borrows.alive /\ borrows.shared = 0 /\ borrows.unique = 0
    /\ borrows' = [borrows EXCEPT !.alive = FALSE]
    /\ ret' = Returned("drop", -1, 0, NoVec)
    /\ UNCHANGED <<layout, data, iter, twin>>

NextBorrow ==
    \/ \E op \in SharedReceivers \cup UniqueViews : ViewCall(op)
    \/ ViewIterItem
    \/ ReleaseShared
    \/ ReleaseUnique
    \/ BufferDrop

SpecBorrow == Init /\ [][NextBorrow]_vars

\* C22: at every point of any sequence of view creations and releases on one
\* buffer there is at most one live mutable view, or any number of live
\* immutable views, never both; no view is live once the buffer is gone, and
\* a call that returns a mutable view was accepted with no other view alive.
C22_AliasingRule ==
    /\ borrows.unique <= 1
    /\ ~(borrows.unique > 0 /\ borrows.shared > 0)
    /\ ~borrows.alive => (borrows.unique = 0 /\ borrows.shared = 0)
    /\ ret.op \in UniqueViews => (borrows.unique = 1 /\ borrows.shared = 0)
    /\ ret.op \in SharedReceivers => borrows.shared > 0

C22_Witness ==
    /\ ret.op = "Matrix2DIter::next" /\ borrows.shared = 3 /\ borrows.unique = 0
    /\ kind = "MatSimd" /\ strategy = "Columns"

====
